---- MODULE Spec2Model ----
(***************************************************************************)
(* Model of the recommendation demo: the real_prototype profiling and      *)
(* scoring engine (user_profiling.py, recommendation.py) and the price     *)
(* bucket functions of the rule-based engines.                             *)
(*                                                                         *)
(* Representation.                                                         *)
(*  - Time is counted in whole days; a datetime is an integer day number.  *)
(*  - A Python dict or Counter is a sequence of entries in insertion       *)
(*    order, because iteration order and the stability of sorted() decide  *)
(*    ties in the code.                                                    *)
(*  - A Python dict with optional keys is a record; a missing key is a     *)
(*    field missing from the record's DOMAIN.                              *)
(*  - Floats are exact fixed-point integers over the denominators named    *)
(*    below; a power of two 2^(n/d) is kept symbolically (Pow2 record)     *)
(*    and flushed to zero where the IEEE double underflows.                *)
(*  - Prices are integer cents.                                            *)
(***************************************************************************)
EXTENDS Integers, Sequences, FiniteSets, TLC

VARIABLES
    materials,        \* DataRepository: materials.json as loaded, in file order
    event_data,       \* DataRepository: the seven event lists
    now,              \* the wall clock, datetime.datetime.now(), in days
    op,               \* "idle", "called" (a call is being served), "returned"
                      \* or "explained" (the returned list was explained)
    req,              \* the call being served or last served, and its arguments
    profile,          \* profile built by the last call (None if none)
    recommendations,  \* list returned by the last recommendation call
    scored,           \* recommend_materials: sorted_materials before padding
    fallback,         \* recommend_materials: bestseller_materials
    price,            \* argument of the price bucket functions (cents)
    ranges,           \* what each copy of the price bucket function returned
    decay_args,       \* arguments of calculate_time_decay
    decay,            \* its result
    explanation,      \* what explain_recommendations returned (None if not called)
    repository,       \* DataRepository: _materials and _event_data, lazily loaded
    personalization,  \* content-based PersonalizationService: its components
    thread,           \* the position of each thread calling into the shared objects
    data_loader,      \* rule_based_v1 DataLoader: the loaded behavior lists
    user_profiles,    \* rule_based_v1 UserProfileBuilder: self.user_profiles
    printed,          \* rule_based_v1: the warnings printed
    built,            \* rule_based_v1 build_profiles: "" (not called), "returned"
                      \* or the exception it raised
    cb_materials,     \* content-based DataLoader.materials
    tfidf,            \* cosine similarity of the TF-IDF vectors of two materials
    liked_material_ids, \* user_content_preferences[user]["liked_material_ids"]
    compared,         \* the last similarity query and what it returned
    material_scores,  \* material_scores after _score_by_liked_materials
    service_module,   \* the module of the PersonalizationService being called
    recommendation_engine, \* rule-based PersonalizationService: its engine
    rule_call,        \* the last call to a rule-based service or engine
    rule_response,    \* what that call returned or raised (None if no call)
    returned_initialize \* TRUE once a call of service.initialize() has returned

service_vars == <<materials, event_data, now, op, req, profile, recommendations,
                  scored, fallback, explanation>>
pure_vars == <<price, ranges, decay_args, decay>>
lazy_vars == <<repository, personalization, thread>>
v1_vars == <<data_loader, user_profiles, printed, built>>

content_vars == <<cb_materials, tfidf, liked_material_ids, compared, material_scores>>

engine_vars == <<service_module, recommendation_engine, rule_call, rule_response,
                 returned_initialize>>

vars == <<service_vars, pure_vars, lazy_vars, v1_vars, content_vars, engine_vars>>

(* None is the empty tuple and a present value x the tuple <<x>> *)
None == <<>>
Some(x) == <<x>>
IsNone(o) == o = <<>>
Val(o) == o[1]
OrElse(option, default) == IF IsNone(option) THEN default ELSE Val(option)

(* The threads that call into the shared objects *)
Threads == {"t1", "t2"}

IdleThread == [pc |-> "idle", calls |-> 0, result |-> None]

MaxCalls == 2

(* DataRepository.__init__: nothing is loaded.  materials_loaded and        *)
(* events_loaded count the loads of the files.                             *)
FreshRepository ==
    [_materials |-> None, _event_data |-> None,
     materials_loaded |-> 0, events_loaded |-> 0]

(* PersonalizationService.__init__ of content_based_filtering: no          *)
(* component yet.  loaded counts the runs of load_data and built those of  *)
(* build_feature_vectors; an object is named by the run that made it.      *)
FreshService ==
    [data_loader |-> None, feature_extractor |-> None,
     profile_analyzer |-> None, recommender |-> None,
     loaded |-> 0, built |-> 0]

(* rule_based_v1 UserProfileBuilder.__init__: self.user_profiles = {} *)
NoProfiles == [user_id \in {} |-> None]

(* rule_based_v1 DataLoader.__init__; materials holds the values of the    *)
(* dictionary of materials.json, in file order                             *)
EmptyLoader ==
    [materials |-> <<>>, purchases |-> <<>>, favorites |-> <<>>,
     interactions |-> <<>>, searches |-> <<>>]

----------------------------------------------------------------------------
(* Bounds of the model *)

MaxLimit == 5          \* requests ask for 1..MaxLimit items
MaxNowPeriod == 3      \* the clock runs from NowStartPeriod to this period
DiversityDen == 2      \* diversity_factor ranges over 0/Den .. Den/Den
MaxPriceCents == 800   \* prices given to the bucket functions
MaxDecayDay == 40      \* day numbers given to calculate_time_decay

----------------------------------------------------------------------------
(* Program constants *)

half_life == 30                \* calculate_time_decay
DoubleMinExponent == 1075      \* math.pow(2, x) is 0.0 for x <= -1075
default_age_days == 365        \* _get_freshness_score, unparseable created_at
recent_days == 90
standard_days == 365
max_per_author == 4            \* config["max_per_author"]
bestseller_ceiling == 1000
low_max_cents == 200           \* _get_price_range: 0 < price <= 2
medium_max_cents == 700        \* 2 < price <= 7
v_low_max_cents == 300         \* rule-based engines: price <= 3

NowStartPeriod == 2

Max(a, b) == IF a >= b THEN a ELSE b
Min(a, b) == IF a <= b THEN a ELSE b

RECURSIVE TwoTo(_)
TwoTo(n) == IF n <= 0 THEN 1 ELSE 2 * TwoTo(n - 1)

(* Fixed-point denominators.  A decay factor is a multiple of              *)
(* 1/DecayScale; an affinity weight a multiple of 1/AffDen; a component    *)
(* score a multiple of 1/ScoreDen; a combined score of 1/CombDen; a final  *)
(* score of 1/FinalDen.                                                    *)
DecayScale == TwoTo(MaxNowPeriod)
AffDen == 200 * DecayScale
ScoreDen == 3 * 100 * AffDen
CombDen == ScoreDen * 20 * 10
FinalDen == CombDen * DiversityDen

----------------------------------------------------------------------------
(* Sequences, dicts and Counters *)

Range(s) == {s[i] : i \in DOMAIN s}

RECURSIVE KeepMarked(_, _, _)
(* The elements s[i], i >= from, whose mark is TRUE, in order *)
KeepMarked(s, marks, from) ==
    IF from > Len(s) THEN <<>>
    ELSE IF marks[from] THEN <<s[from]>> \o KeepMarked(s, marks, from + 1)
    ELSE KeepMarked(s, marks, from + 1)

(* [s[i] for i if marks[i]] *)
Filter(s, marks) == KeepMarked(s, marks, 1)

Take(s, n) == SubSeq(s, 1, Min(Max(n, 0), Len(s)))

(* sorted(s, key=..., reverse=True), keys[i] the key of s[i]: descending   *)
(* and stable, equal keys keep their order in s.                           *)
RECURSIVE InsertDesc(_, _, _)
(* perm lists indices by descending key; i goes after every index whose    *)
(* key is at least keys[i].                                                *)
InsertDesc(perm, i, keys) ==
    IF perm = <<>> THEN <<i>>
    ELSE IF keys[Head(perm)] >= keys[i]
         THEN <<Head(perm)>> \o InsertDesc(Tail(perm), i, keys)
         ELSE <<i>> \o perm

RECURSIVE SortPerm(_, _, _)
SortPerm(keys, i, acc) ==
    IF i > Len(keys) THEN acc
    ELSE SortPerm(keys, i + 1, InsertDesc(acc, i, keys))

Permute(s, perm) == [i \in DOMAIN s |-> s[perm[i]]]

SortDesc(s, keys) == Permute(s, SortPerm(keys, 1, <<>>))

(* A Counter: entries [k, v] in insertion order *)
CounterKeys(c) == [i \in DOMAIN c |-> c[i].k]

CounterHas(c, key) == \E i \in DOMAIN c : c[i].k = key

CounterGet(c, key) ==
    IF CounterHas(c, key)
    THEN (CHOOSE e \in Range(c) : e.k = key).v
    ELSE 0

(* c[key] += amount *)
CounterAdd(c, key, amount) ==
    IF CounterHas(c, key)
    THEN [i \in DOMAIN c |->
            IF c[i].k = key THEN [k |-> key, v |-> c[i].v + amount] ELSE c[i]]
    ELSE Append(c, [k |-> key, v |-> amount])

RECURSIVE CounterAddAll(_, _, _, _)
(* for key in keys[i..]: c[key] += amount *)
CounterAddAll(c, keys, amount, i) ==
    IF i > Len(keys) THEN c
    ELSE CounterAddAll(CounterAdd(c, keys[i], amount), keys, amount, i + 1)

RECURSIVE CounterUpdate(_, _, _)
(* c.update(other): adds other's counts, in other's order *)
CounterUpdate(c, other, i) ==
    IF i > Len(other) THEN c
    ELSE CounterUpdate(CounterAdd(c, other[i].k, other[i].v), other, i + 1)

CounterValues(c) == [i \in DOMAIN c |-> c[i].v]

(* Counter.most_common(n): the keys of the n largest counts, ties in       *)
(* insertion order.                                                        *)
most_common(c, n) == CounterKeys(Take(SortDesc(c, CounterValues(c)), n))

RECURSIVE SumSeq(_, _)
SumSeq(s, i) == IF i > Len(s) THEN 0 ELSE s[i] + SumSeq(s, i + 1)

IndexOf(s, x) == CHOOSE i \in DOMAIN s : s[i] = x /\ \A j \in 1..(i - 1) : s[j] # x

----------------------------------------------------------------------------
(* Text.  A string is its sequence of characters.                          *)

Chars(str) ==
    CASE str = "Math"       -> <<"M", "a", "t", "h">>
      [] str = "Art"        -> <<"A", "r", "t">>
      [] str = "Math Games" -> <<"M", "a", "t", "h", " ", "G", "a", "m", "e", "s">>
      [] str = "Unknown"    -> <<"U", "n", "k", "n", "o", "w", "n">>
      [] str = "3"          -> <<"3">>
      [] str = "5"          -> <<"5">>
      [] str = "math games grade 3" ->
            <<"m", "a", "t", "h", " ", "g", "a", "m", "e", "s", " ",
              "g", "r", "a", "d", "e", " ", "3">>
      [] str = "ART"        -> <<"A", "R", "T">>
      [] OTHER              -> <<>>

LowerChar(ch) ==
    CASE ch = "A" -> "a" [] ch = "G" -> "g" [] ch = "M" -> "m"
      [] ch = "R" -> "r" [] ch = "T" -> "t" [] ch = "U" -> "u"
      [] OTHER -> ch

(* str.lower() *)
lower(text) == [i \in DOMAIN text |-> LowerChar(text[i])]

(* needle in haystack *)
Contains(haystack, needle) ==
    \E start \in 0..(Len(haystack) - Len(needle)) :
        \A i \in 1..Len(needle) : haystack[start + i] = needle[i]

(* str.split(): the words of a text *)
RECURSIVE SplitWords(_, _, _)
SplitWords(text, i, word) ==
    IF i > Len(text) THEN (IF word = <<>> THEN {} ELSE {word})
    ELSE IF text[i] = " "
         THEN (IF word = <<>> THEN {} ELSE {word}) \cup SplitWords(text, i + 1, <<>>)
         ELSE SplitWords(text, i + 1, Append(word, text[i]))

Words(text) == SplitWords(text, 1, <<>>)

----------------------------------------------------------------------------
(* user_profiling.py: DataRepository *)

(* Timestamp strings: a string that parses to a day, a string that no     *)
(* format parses, and the empty string.                                    *)
TimeStr(day) == <<"day", day>>
BadTime == <<"bad">>
EmptyStr == <<>>

Has(rec, key) == key \in DOMAIN rec

(* dict.get(key, default) *)
Get(rec, key, default) == IF Has(rec, key) THEN rec[key] ELSE default

EventFiles ==
    <<"purchases", "viewMaterial", "showMaterialPreview", "addToCart",
      "freeDownload", "addToFavorites", "searches">>

UserEventOf(user_id, ev) == Has(ev, "user_id") /\ ev.user_id = user_id

(* Every event of every file, whoever the user *)
all_user_events(data, user_id) == data

(* get_user_events: per event type, the events whose user_id is user_id *)
get_user_events(data, user_id) ==
    [t \in Range(EventFiles) |->
        Filter(data[t], [i \in DOMAIN data[t] |-> UserEventOf(user_id, data[t][i])])]

(* materials.get(material_id) *)
MaterialById(mats, material_id) ==
    IF \E i \in DOMAIN mats : mats[i].material_id = material_id
    THEN Some(mats[CHOOSE i \in DOMAIN mats : mats[i].material_id = material_id])
    ELSE None

----------------------------------------------------------------------------
(* user_profiling.py: EventProcessor *)

grade_weights(event_type) ==
    CASE event_type = "purchases"           -> 100
      [] event_type = "viewMaterial"        -> 46
      [] event_type = "showMaterialPreview" -> 32
      [] event_type = "searches"            -> 0
      [] event_type = "addToCart"           -> 20
      [] event_type = "freeDownload"        -> 11
      [] event_type = "addToFavorites"      -> 10
      [] OTHER                              -> 0

subject_weights(event_type) ==
    CASE event_type = "purchases"           -> 100
      [] event_type = "viewMaterial"        -> 52
      [] event_type = "showMaterialPreview" -> 36
      [] event_type = "searches"            -> 29
      [] event_type = "addToCart"           -> 23
      [] event_type = "freeDownload"        -> 12
      [] event_type = "addToFavorites"      -> 11
      [] OTHER                              -> 0

event_priority_order ==
    <<"purchases", "viewMaterial", "showMaterialPreview", "addToCart",
      "searches", "freeDownload", "addToFavorites">>

(* get_event_weight, in hundredths *)
get_event_weight(event_type, for_grade) ==
    IF for_grade THEN grade_weights(event_type) ELSE subject_weights(event_type)

(* parse_datetime: the day of a parseable string, otherwise the clock *)
parse_datetime(time_str, clock) ==
    IF Len(time_str) = 2 THEN time_str[2] ELSE clock

(* math.pow(2, num / den) as an IEEE double: zero when the exponent is at  *)
(* or below -1075, otherwise the power, kept as its exponent num/den.      *)
math_pow2(num, den) ==
    [zero |-> num <= -(DoubleMinExponent * den), num |-> num, den |-> den]

(* calculate_time_decay without "days_diff = max(0, days_diff)" *)
unclamped_time_decay(event_time, reference_time, clock) ==
    math_pow2(-(OrElse(reference_time, clock) - parse_datetime(event_time, clock)),
              half_life)

(* calculate_time_decay(event_time, reference_time); the default          *)
(* reference_time None reads the clock.                                    *)
calculate_time_decay(event_time, reference_time, clock) ==
    LET reference == IF IsNone(reference_time) THEN clock ELSE Val(reference_time)
        event_datetime == parse_datetime(event_time, clock)
        days_diff == Max(0, reference - event_datetime)
    IN  math_pow2(-days_diff, half_life)

(* The double as a multiple of 1/DecayScale; exact when the exponent is a  *)
(* whole number of at most MaxNowPeriod half-lives, as it is for every     *)
(* date of the event data sets below.                                      *)
DecayFixed(f) ==
    IF f.zero THEN 0 ELSE DecayScale \div TwoTo((-f.num) \div f.den)

(* 1.0 when the event has no time string, as the analyzers default it *)
DecayOrOne(time_str, clock) ==
    IF time_str # EmptyStr
    THEN DecayFixed(calculate_time_decay(time_str, None, clock))
    ELSE DecayScale

(* extract_categories / extract_grades: the labels of a comma-separated    *)
(* field, none for a missing, empty or "Unknown" field.  A field is kept   *)
(* as the list of its labels.                                              *)
extract_categories(field) ==
    IF field = <<>> \/ field = <<"Unknown">> THEN <<>> ELSE field

extract_grades(field) ==
    IF field = <<>> \/ field = <<"Unknown">> THEN <<>> ELSE field

(* get_event_time: the event's time, date or last_search_date, else today *)
get_event_time(event, clock) ==
    IF Has(event, "time") THEN event.time
    ELSE IF Has(event, "date") THEN event.date
    ELSE IF Has(event, "last_search_date") THEN event.last_search_date
    ELSE TimeStr(clock)

----------------------------------------------------------------------------
(* user_profiling.py: PriceAnalyzer *)

analyzer_get_price_range(p) ==
    IF p = 0 THEN "free"
    ELSE IF 0 < p /\ p <= low_max_cents THEN "low"
    ELSE IF low_max_cents < p /\ p <= medium_max_cents THEN "medium"
    ELSE "high"

RECURSIVE PriceCounter(_, _, _, _)
(* The loop of analyze_price_preferences: counts in units of 1/DecayScale *)
PriceCounter(purchases, clock, i, counter) ==
    IF i > Len(purchases) THEN counter
    ELSE PriceCounter(purchases, clock, i + 1,
            CounterAdd(counter,
                analyzer_get_price_range(Get(purchases[i], "price_euro", 0)),
                DecayOrOne(Get(purchases[i], "time",
                               Get(purchases[i], "date", EmptyStr)), clock)))

(* analyze_price_preferences: each bucket's share v / total *)
PriceShares(counter, sum) ==
    [i \in DOMAIN counter |->
        [k |-> counter[i].k, v |-> counter[i].v,
         total |-> IF sum = 0 THEN DecayScale ELSE sum]]

PriceTotal(counter) == SumSeq([i \in DOMAIN counter |-> counter[i].v], 1)

PriceSharesOf(counter) == PriceShares(counter, PriceTotal(counter))

analyze_price_preferences(purchases, clock) ==
    PriceSharesOf(PriceCounter(purchases, clock, 1, <<>>))

----------------------------------------------------------------------------
(* user_profiling.py: SearchAnalyzer *)

(* The labels of a field that occur, lowercased, in the query *)
LabelsInQuery(labels, query) ==
    Filter(labels,
           [i \in DOMAIN labels |-> Contains(query, lower(Chars(labels[i])))])

RECURSIVE SearchOverMaterials(_, _, _, _, _)
(* The inner loop of extract_search_insights over self.materials.values(): *)
(* weighted_score is in units of 1/(2 * AffDen), the category counter gets *)
(* weighted_score and the grade counter weighted_score * 0.5.              *)
SearchOverMaterials(mats, query, weighted_score, m, counters) ==
    IF m > Len(mats) THEN counters
    ELSE SearchOverMaterials(mats, query, weighted_score, m + 1,
            [cat |-> CounterAddAll(counters.cat,
                        LabelsInQuery(
                            extract_categories(Get(mats[m], "categories", <<>>)),
                            query),
                        weighted_score * 2, 1),
             grade |-> CounterAddAll(counters.grade,
                        LabelsInQuery(
                            extract_grades(Get(mats[m], "class_grades", <<>>)),
                            query),
                        weighted_score, 1)])

(* weight * time_decay * frequency of one search *)
SearchScore(search, weight, clock) ==
    weight
      * DecayFixed(calculate_time_decay(
            Get(search, "last_search_date", EmptyStr), None, clock))
      * Get(search, "search_frequency", 1)

RECURSIVE SearchLoop(_, _, _, _, _, _)
SearchLoop(searches, weight, mats, clock, i, counters) ==
    IF i > Len(searches) THEN counters
    ELSE SearchLoop(searches, weight, mats, clock, i + 1,
            SearchOverMaterials(mats,
                lower(Chars(Get(searches[i], "search_keyword", ""))),
                SearchScore(searches[i], weight, clock), 1, counters))

(* extract_search_insights: (categories_counter, grades_counter) *)
extract_search_insights(searches, weight, mats, clock) ==
    SearchLoop(searches, weight, mats, clock, 1, [cat |-> <<>>, grade |-> <<>>])

----------------------------------------------------------------------------
(* user_profiling.py: UserProfiler *)

(* get_reference_time: the latest event time of the user, else the clock *)
get_reference_time(user_events, clock) ==
    LET TimesOf(events) ==
            {parse_datetime(get_event_time(events[i], clock), clock) :
                i \in {j \in DOMAIN events :
                          get_event_time(events[j], clock) # EmptyStr}}
        all_times == UNION {TimesOf(user_events[t]) : t \in Range(EventFiles)}
    IN  IF all_times # {}
        THEN CHOOSE d \in all_times : \A e \in all_times : e <= d
        ELSE clock

(* self.materials.get(material_id, event) *)
MaterialOrEvent(found, event) == IF IsNone(found) THEN event ELSE Val(found)

(* One pass of the loop body: the counters after the event; the weights    *)
(* are in units of 1/AffDen.                                               *)
CountEvent(counters, material, event_type, time_decay) ==
    [cat |-> CounterAddAll(counters.cat,
                extract_categories(Get(material, "categories", <<>>)),
                get_event_weight(event_type, FALSE) * time_decay * 2, 1),
     grade |-> CounterAddAll(counters.grade,
                extract_grades(Get(material, "class_grades", <<>>)),
                get_event_weight(event_type, TRUE) * time_decay * 2, 1)]

ProcessEvent(counters, event, event_type, reference_time, mats, clock) ==
    IF Get(event, "material_id", "") = "" THEN counters
    ELSE CountEvent(counters,
            MaterialOrEvent(MaterialById(mats, Get(event, "material_id", "")), event),
            event_type,
            DecayFixed(calculate_time_decay(get_event_time(event, clock),
                                            Some(reference_time), clock)))

RECURSIVE MaterialEventLoop(_, _, _, _, _, _, _)
MaterialEventLoop(events, event_type, reference_time, mats, clock, i, counters) ==
    IF i > Len(events) THEN counters
    ELSE MaterialEventLoop(events, event_type, reference_time, mats, clock, i + 1,
            ProcessEvent(counters, events[i], event_type, reference_time, mats,
                         clock))

(* process_material_based_events: (categories_counter, grades_counter) *)
process_material_based_events(events, event_type, reference_time, mats, clock) ==
    MaterialEventLoop(events, event_type, reference_time, mats, clock, 1,
                      [cat |-> <<>>, grade |-> <<>>])

(* all_categories.update(categories); all_grades.update(grades) *)
UpdateCounters(all, counters) ==
    [cat |-> CounterUpdate(all.cat, counters.cat, 1),
     grade |-> CounterUpdate(all.grade, counters.grade, 1)]

(* The (categories, grades) counters of one event type *)
CountersOf(events, event_type, reference_time, mats, clock) ==
    IF event_type = "searches"
    THEN extract_search_insights(
             events, get_event_weight(event_type, FALSE), mats, clock)
    ELSE process_material_based_events(
             events, event_type, reference_time, mats, clock)

RECURSIVE PriorityLoop(_, _, _, _, _, _)
(* The loop over event_priority_order that aggregates the counters *)
PriorityLoop(user_events, reference_time, mats, clock, p, all) ==
    IF p > Len(event_priority_order) THEN all
    ELSE PriorityLoop(user_events, reference_time, mats, clock, p + 1,
            UpdateCounters(all,
                CountersOf(user_events[event_priority_order[p]],
                           event_priority_order[p], reference_time, mats, clock)))

(* max(price_preferences.items(), key=share)[0], or "medium" *)
top_price(price_preferences) ==
    IF price_preferences # <<>>
    THEN SortDesc(price_preferences, CounterValues(price_preferences))[1].k
    ELSE "medium"

(* The profile dictionary create_user_profile returns *)
UserProfile(user_id, user_events, all, price_preferences, clock) ==
    [user_id |-> user_id,
     preferred_categories |-> most_common(all.cat, 3),
     preferred_grades |-> most_common(all.grade, 3),
     price_preference |-> top_price(price_preferences),
     category_weights |-> all.cat,
     grade_weights |-> all.grade,
     price_range_weights |-> price_preferences,
     event_counts |-> [t \in Range(EventFiles) |-> Len(user_events[t])],
     profile_generation_time |-> clock]

(* create_user_profile from the events of the user on *)
ProfileOfEvents(user_id, user_events, mats, clock) ==
    UserProfile(user_id, user_events,
        PriorityLoop(user_events, get_reference_time(user_events, clock), mats,
                     clock, 1, [cat |-> <<>>, grade |-> <<>>]),
        analyze_price_preferences(user_events["purchases"], clock),
        clock)

create_user_profile(data, mats, user_id, clock) ==
    ProfileOfEvents(user_id, get_user_events(data, user_id), mats, clock)

----------------------------------------------------------------------------
(* recommendation.py: MaterialRecommender *)

recent_factor == 15        \* config["freshness"], in tenths
standard_factor == 10
older_factor == 7

(* The words of a category label, lowercased *)
CategoryWords(category) == Words(lower(Chars(category)))

(* The categories carried by the materials of the catalog, in first-seen   *)
(* order (the code keeps a set; only membership is read from the result).  *)
AllCategories(mats) ==
    UNION {Range(extract_categories(Get(mats[i], "categories", <<>>))) :
              i \in DOMAIN mats}

(* No category is related to another *)
no_related(mats, category) == {}

(* _build_category_relationships: category -> the other categories that    *)
(* share a word with it.                                                   *)
related_categories(mats, category) ==
    {other \in AllCategories(mats) :
        /\ category \in AllCategories(mats)
        /\ other # category
        /\ CategoryWords(category) \cap CategoryWords(other) # {}}

(* _get_user_interactions: material ids the user purchased or downloaded *)
get_user_interactions(data, user_id) ==
    LET user_events == get_user_events(data, user_id)
        IdsOf(events) ==
            {events[i].material_id :
                i \in {j \in DOMAIN events :
                          Get(events[j], "material_id", "") # ""}}
    IN  IdsOf(user_events["purchases"]) \cup IdsOf(user_events["freeDownload"])

(* strptime of the date part of a field; None when missing or unparseable *)
ParseDate(material, key) ==
    LET field == Get(material, key, EmptyStr)
    IN  IF Len(field) = 2 THEN Some(field[2]) ELSE None

(* _get_freshness_score, in tenths *)
(* latest_date = max(created_at, updated_at), updated_at defaulting to     *)
(* created_at                                                              *)
LatestDate(created_at, updated) == Max(created_at, OrElse(updated, created_at))

FreshnessOfAge(age_days) ==
    IF age_days < recent_days THEN recent_factor
    ELSE IF age_days < standard_days THEN standard_factor
    ELSE older_factor

get_freshness_score(material, clock) ==
    FreshnessOfAge(
        clock - LatestDate(OrElse(ParseDate(material, "created_at"),
                                  clock - default_age_days),
                           ParseDate(material, "updated_at")))

range_order == <<"free", "low", "medium", "high">>

(* No two ranges are adjacent *)
never_adjacent(price_range, preferred_range) == FALSE

(* _is_price_adjacent *)
is_price_adjacent(price_range, preferred_range) ==
    IF price_range = preferred_range THEN FALSE
    ELSE IF price_range \in Range(range_order) /\ preferred_range \in Range(range_order)
         THEN LET d == IndexOf(range_order, price_range)
                       - IndexOf(range_order, preferred_range)
              IN  d = 1 \/ d = -1
         ELSE FALSE

(* MaterialRecommender._get_price_range *)
recommender_get_price_range(p) ==
    IF p = 0 THEN "free"
    ELSE IF 0 < p /\ p <= low_max_cents THEN "low"
    ELSE IF low_max_cents < p /\ p <= medium_max_cents THEN "medium"
    ELSE "high"

RECURSIVE LabelScore(_, _, _, _, _, _)
(* The loop of the "category" and "grade" branches of                      *)
(* _score_material_for_user, in units of 1/ScoreDen.                       *)
LabelScore(labels, preferred, weights, Related, i, score) ==
    IF i > Len(labels) THEN score
    ELSE LET label == labels[i]
             rank == IndexOf(preferred, label) - 1
             \* 1.0 / (rank + 1) plus weights.get(label, 0) / 100
             exact == ScoreDen \div (rank + 1) + 3 * CounterGet(weights, label)
             add == IF label \in Range(preferred) THEN exact
                    ELSE IF label \in Related THEN (3 * ScoreDen) \div 10
                    ELSE 0
         IN  LabelScore(labels, preferred, weights, Related, i + 1, score + add)

(* A scorer that ignores the profile: every material scores 0 *)
unscored(mats, material, user_profile, score_type) == 0

(* _score_material_for_user(material, user_profile, score_type), 1/ScoreDen *)
score_material_for_user(mats, material, user_profile, score_type) ==
    CASE score_type = "category" ->
            LET preferred == user_profile.preferred_categories
                Related == UNION {related_categories(mats, pref) :
                                     pref \in Range(preferred)}
            IN  Min(ScoreDen,
                    LabelScore(extract_categories(Get(material, "categories", <<>>)),
                               preferred, user_profile.category_weights,
                               Related, 1, 0))
      [] score_type = "grade" ->
            Min(ScoreDen,
                LabelScore(extract_grades(Get(material, "class_grades", <<>>)),
                           user_profile.preferred_grades,
                           user_profile.grade_weights, {}, 1, 0))
      [] score_type = "price" ->
            LET price_range == recommender_get_price_range(Get(material, "price", 0))
                preferred_range == user_profile.price_preference
            IN  IF price_range = preferred_range THEN ScoreDen
                ELSE IF is_price_adjacent(price_range, preferred_range)
                     THEN ScoreDen \div 2
                     ELSE ScoreDen \div 5
      [] OTHER -> 0

AuthorOf(item) == Get(item.material, "author_id", "unknown")

RECURSIVE AuthorFilter(_, _, _, _)
AuthorFilter(items, cap, i, kept) ==
    IF i > Len(items) THEN kept
    ELSE IF Len(Filter(kept, [k \in DOMAIN kept |->
                    AuthorOf(kept[k]) = AuthorOf(items[i])])) < cap
         THEN AuthorFilter(items, cap, i + 1, Append(kept, items[i]))
         ELSE AuthorFilter(items, cap, i + 1, kept)

(* _filter_by_author_diversity(materials, max_per_author) *)
filter_by_author_diversity(items, cap) == AuthorFilter(items, cap, 1, <<>>)

(* min(1.0, float(material.get("bestseller_rating", 0)) / 1000), 1/ScoreDen *)
bestseller_score_of(material) ==
    Min(ScoreDen,
        (Get(material, "bestseller_rating", 0) * ScoreDen) \div bestseller_ceiling)

(* One entry of scored_materials.  random_draw is random.random() in units *)
(* of 1/CombDen, diversity_factor a multiple of 1/DiversityDen; the        *)
(* combined score (0.35 c + 0.25 g + 0.15 p + 0.15 b) * freshness is in    *)
(* units of 1/CombDen, the final score in units of 1/FinalDen.             *)
ScoredRecord(material, category_score, grade_score, price_score, freshness_factor, bestseller_score, diversity_factor, random_draw) ==
    [material_id |-> material.material_id,
     material |-> material,
     score |-> (category_score * 7 + grade_score * 5 + price_score * 3
                  + bestseller_score * 3) * freshness_factor
                 * (DiversityDen - diversity_factor)
               + random_draw * diversity_factor,
     category_score |-> category_score,
     grade_score |-> grade_score,
     price_score |-> price_score,
     freshness_factor |-> freshness_factor,
     bestseller_score |-> bestseller_score,
     is_fallback |-> FALSE]

ScoredEntry(mats, material, user_profile, diversity_factor, random_draw, clock) ==
    ScoredRecord(material,
        score_material_for_user(mats, material, user_profile, "category"),
        score_material_for_user(mats, material, user_profile, "grade"),
        score_material_for_user(mats, material, user_profile, "price"),
        get_freshness_score(material, clock),
        bestseller_score_of(material),
        diversity_factor, random_draw)

(* One entry of bestseller_materials *)
FallbackRecord(material, freshness_factor, bestseller_score) ==
    [material_id |-> material.material_id,
     material |-> material,
     score |-> bestseller_score * freshness_factor * 20 * DiversityDen,
     category_score |-> 0,
     grade_score |-> 0,
     price_score |-> 0,
     freshness_factor |-> freshness_factor,
     bestseller_score |-> bestseller_score,
     is_fallback |-> TRUE]

FallbackEntry(material, clock) ==
    FallbackRecord(material, get_freshness_score(material, clock),
                   bestseller_score_of(material))

(* material.get(key) is truthy: a text field present and not empty, a     *)
(* number present and not zero.                                            *)
TruthyText(material, key) == Has(material, key) /\ material[key] # <<>>
TruthyNumber(material, key) == Has(material, key) /\ material[key] # 0

(* One entry of the returned list.  The price is kept as Some(cents); a    *)
(* missing price is returned as the empty string.                          *)
Recommendation(item) ==
    [material_id |-> item.material_id,
     title |-> Get(item.material, "material_title", ""),
     price |-> IF Has(item.material, "price") THEN Some(item.material.price)
               ELSE EmptyStr,
     categories |-> Get(item.material, "categories", <<>>),
     class_grades |-> Get(item.material, "class_grades", <<>>),
     author_id |-> Get(item.material, "author_id", "unknown"),
     score |-> item.score,
     is_fallback |-> item.is_fallback,
     recommendation_factors |->
        [category_match |-> item.category_score,
         grade_match |-> item.grade_score,
         price_match |-> item.price_score,
         freshness |-> item.freshness_factor,
         popularity |-> item.bestseller_score]]

EmptyOutcome == [result |-> <<>>, scored |-> <<>>, fallback |-> <<>>]

(* The materials the user has not interacted with, in catalog order *)
candidates_of(mats, interacted_materials) ==
    Filter(mats, [i \in DOMAIN mats |->
                    mats[i].material_id \notin interacted_materials])

(* "if not categories or not class_grades: continue" *)
HasKeyData(material) ==
    TruthyText(material, "categories") /\ TruthyText(material, "class_grades")

ScoreAll(to_score, mats, user_profile, diversity_factor, draws, clock) ==
    [i \in DOMAIN to_score |->
        ScoredEntry(mats, to_score[i], user_profile, diversity_factor,
                    draws[to_score[i].material_id], clock)]

(* items.sort(key=lambda x: x["score"], reverse=True) *)
SortByScore(items) == SortDesc(items, [i \in DOMAIN items |-> items[i].score])

(* The candidates that are scored: those with categories and grades *)
to_score_of(candidate_materials) ==
    Filter(candidate_materials,
           [i \in DOMAIN candidate_materials |-> HasKeyData(candidate_materials[i])])

(* scored_materials after the sort by final score *)
sorted_materials_of(candidate_materials, mats, user_profile, diversity_factor, draws, clock) ==
    SortByScore(ScoreAll(to_score_of(candidate_materials), mats, user_profile,
                         diversity_factor, draws, clock))

FallbackAll(unused, clock) == [i \in DOMAIN unused |-> FallbackEntry(unused[i], clock)]

(* Candidates not yet used that have a bestseller rating *)
unused_of(candidate_materials, used_material_ids) ==
    Filter(candidate_materials,
           [i \in DOMAIN candidate_materials |->
               /\ candidate_materials[i].material_id \notin used_material_ids
               /\ TruthyNumber(candidate_materials[i], "bestseller_rating")])

MaterialIds(items) == {items[i].material_id : i \in DOMAIN items}

(* bestseller_materials left in catalog order *)
unsorted_bestsellers(candidate_materials, sorted_materials, limit, clock) ==
    IF Len(sorted_materials) < limit
    THEN FallbackAll(unused_of(candidate_materials,
                               MaterialIds(sorted_materials)), clock)
    ELSE <<>>

(* bestseller_materials after its sort; built only when the scored         *)
(* materials are fewer than limit                                          *)
bestseller_materials_of(candidate_materials, sorted_materials, limit, clock) ==
    IF Len(sorted_materials) < limit
    THEN SortByScore(FallbackAll(unused_of(candidate_materials,
                                           MaterialIds(sorted_materials)), clock))
    ELSE <<>>

(* The two pools merged by score *)
merge_by_score(sorted_materials, bestseller_materials, limit) ==
    SortByScore(sorted_materials \o Take(bestseller_materials, limit * 2))

(* sorted_materials.extend(bestseller_materials[:limit * 2]) *)
pad_with_fallback(sorted_materials, bestseller_materials, limit) ==
    sorted_materials \o Take(bestseller_materials, limit * 2)

(* sorted_materials with no cut at limit *)
select_all(padded, limit) == padded

(* top_materials = sorted_materials[:min(limit, len(sorted_materials))] *)
select_top(padded, limit) == Take(padded, Min(limit, Len(padded)))

Format(top_materials) ==
    [i \in DOMAIN top_materials |-> Recommendation(top_materials[i])]

Outcome(sorted_materials, bestseller_materials, limit) ==
    [result |-> Format(select_top(pad_with_fallback(sorted_materials,
                                                    bestseller_materials, limit),
                                  limit)),
     scored |-> sorted_materials,
     fallback |-> bestseller_materials]

PadAndFormat(candidate_materials, sorted_materials, limit, clock) ==
    Outcome(sorted_materials,
            bestseller_materials_of(candidate_materials, sorted_materials, limit,
                                    clock),
            limit)

RecommendFrom(candidate_materials, mats, user_profile, limit, diversity_factor, draws, clock) ==
    IF candidate_materials = <<>> THEN EmptyOutcome
    ELSE PadAndFormat(candidate_materials,
            sorted_materials_of(candidate_materials, mats, user_profile,
                                diversity_factor, draws, clock),
            limit, clock)

(* recommend_materials(user_profile, limit, diversity_factor).  draws maps *)
(* a material id to the value random.random() returns for it.  Besides the *)
(* returned list the outcome keeps the two local pools.                    *)
recommend_materials(data, mats, user_profile, limit, diversity_factor, draws, clock) ==
    IF user_profile.user_id = "" THEN EmptyOutcome
    ELSE RecommendFrom(
            candidates_of(mats, get_user_interactions(data, user_profile.user_id)),
            mats, user_profile, limit, diversity_factor, draws, clock)

----------------------------------------------------------------------------
(* Rule-based engines: UserProfileBuilder._get_price_range *)

v1_get_price_range(p) ==
    IF p = 0 THEN "free"
    ELSE IF p <= v_low_max_cents THEN "low"
    ELSE IF p <= medium_max_cents THEN "medium"
    ELSE "high"

v2_get_price_range(p) ==
    IF p = 0 THEN "free"
    ELSE IF p <= v_low_max_cents THEN "low"
    ELSE IF p <= medium_max_cents THEN "medium"
    ELSE "high"

(* recommendation.py: RecommendationService._get_price_range *)
service_get_price_range(p) ==
    IF p = 0 THEN "free"
    ELSE IF 0 < p /\ p <= low_max_cents THEN "low"
    ELSE IF low_max_cents < p /\ p <= medium_max_cents THEN "medium"
    ELSE "high"

----------------------------------------------------------------------------
(* RecommendationService.explain_recommendations *)

explained_labels == 5

RECURSIVE LabelsOf(_, _, _)
(* The labels appended by the loop, in order, for the field "categories"   *)
(* or "class_grades" of the recommendations                                *)
LabelsOf(recs, field, i) ==
    IF i > Len(recs) THEN <<>>
    ELSE extract_categories(recs[i][field]) \o LabelsOf(recs, field, i + 1)

(* Counter(items): one count per occurrence, keys in order of appearance *)
Counter(items) == CounterAddAll(<<>>, items, 1, 1)

(* dict(counter.most_common(n)): the n largest entries, ties in insertion  *)
(* order                                                                   *)
most_common_items(c, n) == Take(SortDesc(c, CounterValues(c)), n)

(* price_range of each recommendation; the price is there *)
PriceRangesOf(recs) ==
    [i \in DOMAIN recs |-> service_get_price_range(Val(recs[i].price))]

(* the freshness classes of the loop *)
FreshnessClass(freshness_factor) ==
    IF freshness_factor >= recent_factor THEN "recent"
    ELSE IF freshness_factor >= standard_factor THEN "standard"
    ELSE "older"

FreshnessCount(recs, class) ==
    Cardinality({i \in DOMAIN recs :
        FreshnessClass(recs[i].recommendation_factors.freshness) = class})

(* sum(r[...][factor] for r in recommendations) / len(recommendations),    *)
(* kept as the sum and the count                                           *)
Average(recs, factor) ==
    [sum |-> SumSeq([i \in DOMAIN recs |-> recs[i].recommendation_factors[factor]], 1),
     count |-> Len(recs)]

(* explain_recommendations(recommendations).  float(rec.get("price", 0))   *)
(* raises ValueError for the empty string of a missing price.              *)
explain_recommendations(recs) ==
    IF recs = <<>> THEN [explanation |-> "No recommendations available"]
    ELSE IF \E i \in DOMAIN recs : recs[i].price = EmptyStr
    THEN [raised |-> "ValueError"]
    ELSE [summary |-> Len(recs),
          categories |-> most_common_items(Counter(LabelsOf(recs, "categories", 1)),
                                           explained_labels),
          grades |-> most_common_items(Counter(LabelsOf(recs, "class_grades", 1)),
                                       explained_labels),
          price_distribution |-> Counter(PriceRangesOf(recs)),
          freshness_distribution |->
              [recent |-> FreshnessCount(recs, "recent"),
               standard |-> FreshnessCount(recs, "standard"),
               older |-> FreshnessCount(recs, "older")],
          recommendation_factors |->
              [avg_category_match |-> Average(recs, "category_match"),
               avg_grade_match |-> Average(recs, "grade_match"),
               avg_price_match |-> Average(recs, "price_match"),
               avg_freshness |-> Average(recs, "freshness"),
               avg_popularity |-> Average(recs, "popularity")]]

----------------------------------------------------------------------------
(* rule_based_v1 UserProfileBuilder.  A dictionary keyed by user id is a    *)
(* function; the Counter values are in tenths (a purchase counts 10).      *)

NewV1Profile(user_id) ==
    [user_id |-> user_id,
     behavior |-> [purchases |-> <<>>, favorites |-> <<>>,
                   interactions |-> <<>>, searches |-> <<>>],
     preferences |-> [categories |-> <<>>, grade_levels |-> <<>>,
                      price_ranges |-> <<>>, is_bundle |-> <<>>],
     context |-> [device |-> None],
     recent_activity |-> [last_active_date |-> None,
                          last_purchased_material |-> None,
                          last_search_query |-> None]]

RECURSIVE CollectUserIds(_, _, _, _)
(* One loop of _initialize_user_profiles over a behavior list.  A record   *)
(* without user_id raises KeyError, and the handler prints a warning that  *)
(* formats the variable search: it is bound only in the last loop, the one *)
(* over the searches, and reading it before raises UnboundLocalError.      *)
CollectUserIds(records, i, search_bound, acc) ==
    IF acc.raised # "" \/ i > Len(records) THEN acc
    ELSE IF Has(records[i], "user_id")
    THEN CollectUserIds(records, i + 1, search_bound,
                        [acc EXCEPT !.user_ids = @ \cup {records[i].user_id}])
    ELSE IF search_bound
    THEN CollectUserIds(records, i + 1, search_bound,
                        [acc EXCEPT !.printed = Append(@, records[i])])
    ELSE [acc EXCEPT !.raised = "UnboundLocalError"]

EmptyProfiles(acc) ==
    [raised |-> acc.raised, printed |-> acc.printed,
     user_profiles |-> [user_id \in (IF acc.raised = "" THEN acc.user_ids ELSE {})
                          |-> NewV1Profile(user_id)]]

(* _initialize_user_profiles *)
initialize_user_profiles(loader) ==
    EmptyProfiles(
        CollectUserIds(loader.searches, 1, TRUE,
            CollectUserIds(loader.interactions, 1, FALSE,
                CollectUserIds(loader.favorites, 1, FALSE,
                    CollectUserIds(loader.purchases, 1, FALSE,
                        [user_ids |-> {}, printed |-> <<>>, raised |-> ""])))))

(* last_active_date is None or the record's date is after it *)
IsLater(date, last_active_date) ==
    IsNone(last_active_date) \/ date > Val(last_active_date)

BundleKey(record) == IF record.is_bundle = "1" THEN "1" ELSE "0"

(* The preference counters of a profile after a record of the given weight *)
CountPreferences(preferences, record, record_price, weight) ==
    [categories |-> CounterAdd(preferences.categories, record.material_category, weight),
     grade_levels |-> CounterAdd(preferences.grade_levels, record.class_grade, weight),
     price_ranges |-> CounterAdd(preferences.price_ranges,
                                 v1_get_price_range(record_price), weight),
     is_bundle |-> CounterAdd(preferences.is_bundle, BundleKey(record), weight)]

(* the body of the loop of _process_purchases *)
process_purchase(p, purchase) ==
    [p EXCEPT
        !.behavior.purchases = Append(@, purchase),
        !.preferences = CountPreferences(@, purchase, purchase.purchase_price, 10),
        !.context.device = Some(purchase.user_device),
        !.recent_activity.last_active_date =
            IF IsLater(purchase.date, @) THEN Some(purchase.date) ELSE @,
        !.recent_activity.last_purchased_material =
            IF IsLater(purchase.date, p.recent_activity.last_active_date)
            THEN Some(purchase.material_id) ELSE @]

(* the body of the loop of _process_favorites *)
process_favorite(p, favorite) ==
    [p EXCEPT
        !.behavior.favorites = Append(@, favorite),
        !.preferences = CountPreferences(@, favorite, favorite.material_price, 5),
        !.context.device = Some(favorite.user_device),
        !.recent_activity.last_active_date =
            IF IsLater(favorite.date, @) THEN Some(favorite.date) ELSE @]

interaction_weight(type) ==
    IF type = "click" THEN 3
    ELSE IF type = "view_preview" THEN 4
    ELSE IF type = "add_to_cart" THEN 5
    ELSE 2

(* the body of the loop of _process_interactions *)
process_interaction(p, interaction) ==
    [p EXCEPT
        !.behavior.interactions = Append(@, interaction),
        !.preferences = CountPreferences(@, interaction, interaction.material_price,
                                         interaction_weight(interaction.type)),
        !.context.device = Some(interaction.user_device),
        !.recent_activity.last_active_date =
            IF IsLater(interaction.date, @) THEN Some(interaction.date) ELSE @]

(* the body of the loop of _process_searches *)
process_search(p, search) ==
    [p EXCEPT
        !.behavior.searches = Append(@, search),
        !.context.device = Some(search.user_device),
        !.recent_activity.last_active_date =
            IF IsLater(search.date, @) THEN Some(search.date) ELSE @,
        !.recent_activity.last_search_query =
            IF IsLater(search.date, p.recent_activity.last_active_date)
            THEN Some(search.query) ELSE @]

ProcessRecord(kind, p, record) ==
    CASE kind = "purchases" -> process_purchase(p, record)
      [] kind = "favorites" -> process_favorite(p, record)
      [] kind = "interactions" -> process_interaction(p, record)
      [] kind = "searches" -> process_search(p, record)

RECURSIVE ProcessRecords(_, _, _, _)
(* _process_purchases, _process_favorites, _process_interactions,          *)
(* _process_searches: record["user_id"] raises KeyError when the key is    *)
(* missing; nothing runs after an exception.                               *)
ProcessRecords(b, kind, records, i) ==
    IF b.raised # "" \/ i > Len(records) THEN b
    ELSE IF ~Has(records[i], "user_id") THEN [b EXCEPT !.raised = "KeyError"]
    ELSE IF records[i].user_id \in DOMAIN b.user_profiles
    THEN ProcessRecords(
            [b EXCEPT !.user_profiles[records[i].user_id] =
                          ProcessRecord(kind, @, records[i])],
            kind, records, i + 1)
    ELSE ProcessRecords(b, kind, records, i + 1)

(* counter.most_common(1)[0][0] if counter else None *)
MostCommonOrNone(counter) ==
    IF counter = <<>> THEN None ELSE Some(most_common(counter, 1)[1])

InferredProfile(p) ==
    [preferred_category |-> MostCommonOrNone(p.preferences.categories),
     preferred_grade |-> MostCommonOrNone(p.preferences.grade_levels),
     preferred_price_range |-> MostCommonOrNone(p.preferences.price_ranges),
     preferred_bundle_status |-> MostCommonOrNone(p.preferences.is_bundle)] @@ p

(* _infer_preferences *)
infer_preferences(b) ==
    IF b.raised # "" THEN b
    ELSE [b EXCEPT !.user_profiles =
                     [user_id \in DOMAIN b.user_profiles |->
                        InferredProfile(b.user_profiles[user_id])]]

(* UserProfileBuilder.build_profiles() *)
build_profiles(loader) ==
    infer_preferences(
        ProcessRecords(
            ProcessRecords(
                ProcessRecords(
                    ProcessRecords(initialize_user_profiles(loader),
                                   "purchases", loader.purchases, 1),
                    "favorites", loader.favorites, 1),
                "interactions", loader.interactions, 1),
            "searches", loader.searches, 1))

----------------------------------------------------------------------------
(* content_based_filtering: ContentFeatureExtractor                        *)
(* A material is a record with optional fields; a categorical field holds  *)
(* [scalar |-> value] or [list |-> sequence of values].                    *)

(* The keys of categorical_features, in the order of the dictionary *)
categorical_features == <<"grade_level", "category", "subcategory",
                          "teaching_approach", "complexity_level", "format",
                          "seasonal_relevance", "is_bundle">>

(* The field of a material a feature is read from *)
MaterialField(feature_name) ==
    IF feature_name = "grade_level" THEN "class_grade" ELSE feature_name

IsList(value) == "list" \in DOMAIN value

(* _extract_categorical_features: material_id in feature_dict *)
InFeatureDict(material, feature_name) ==
    /\ Has(material, MaterialField(feature_name))
    /\ (feature_name = "seasonal_relevance")
          => IsList(material[MaterialField(feature_name)])

(* Units: one feature adds a multiple of 1/JaccardDen, the average over    *)
(* 1..8 features is a multiple of 1/CatDen, a combined similarity of       *)
(* 1/CombinedDen, the mean over the liked materials of 1/MeanDen.          *)
JaccardDen == 6
FeatureLcm == 840
CatDen == JaccardDen * FeatureLcm
TextDen == 10
CombinedDen == CatDen * TextDen
MeanDen == CombinedDen * 6

(* What one shared feature adds to similarity_score, in 1/JaccardDen *)
feature_similarity(value1, value2) ==
    IF IsList(value1) /\ IsList(value2)
    THEN IF Range(value1.list) \cup Range(value2.list) # {}
         THEN (Cardinality(Range(value1.list) \cap Range(value2.list)) * JaccardDen)
                 \div Cardinality(Range(value1.list) \cup Range(value2.list))
         ELSE 0
    ELSE IF value1 = value2 THEN JaccardDen ELSE 0

RECURSIVE FeatureLoop(_, _, _, _)
(* The loop over categorical_features: [score, count] *)
FeatureLoop(material1, material2, f, acc) ==
    IF f > Len(categorical_features) THEN acc
    ELSE IF InFeatureDict(material1, categorical_features[f])
              /\ InFeatureDict(material2, categorical_features[f])
         THEN FeatureLoop(material1, material2, f + 1,
                  [score |-> acc.score
                       + feature_similarity(
                             material1[MaterialField(categorical_features[f])],
                             material2[MaterialField(categorical_features[f])]),
                   count |-> acc.count + 1])
         ELSE FeatureLoop(material1, material2, f + 1, acc)

AverageOver(acc) ==
    IF acc.count > 0 THEN acc.score * (FeatureLcm \div acc.count) ELSE 0

KnownMaterial(mats, material_id) ==
    \E i \in DOMAIN mats : mats[i].material_id = material_id

(* get_categorical_similarity(material_id1, material_id2), in 1/CatDen *)
get_categorical_similarity(mats, material_id1, material_id2) ==
    IF ~KnownMaterial(mats, material_id1) \/ ~KnownMaterial(mats, material_id2)
    THEN 0
    ELSE AverageOver(FeatureLoop(Val(MaterialById(mats, material_id1)),
                                 Val(MaterialById(mats, material_id2)), 1,
                                 [score |-> 0, count |-> 0]))

(* get_tfidf_similarity, in tenths: 0 for a material without a vector, else *)
(* the cosine of the two vectors, which the table text gives               *)
get_tfidf_similarity(text, material_id1, material_id2) ==
    IF <<material_id1, material_id2>> \in DOMAIN text
    THEN text[<<material_id1, material_id2>>] ELSE 0

text_weight == 6       \* get_combined_similarity(text_weight=0.6), in tenths

(* get_combined_similarity, in 1/CombinedDen *)
get_combined_similarity(mats, text, material_id1, material_id2) ==
    text_weight * get_tfidf_similarity(text, material_id1, material_id2) * (CatDen \div TextDen)
        + (TextDen - text_weight)
            * get_categorical_similarity(mats, material_id1, material_id2)

(* ContentBasedRecommender._score_by_liked_materials *)

significant == 5       \* "if similarity > 0.5", in tenths

(* The similarities of every liked material, whatever their size *)
all_similarities(mats, text, material_id, liked, l, similarities) ==
    [k \in 1..Len(SelectSeq(liked, LAMBDA x : KnownMaterial(mats, x))) |->
        get_combined_similarity(mats, text, material_id,
            SelectSeq(liked, LAMBDA x : KnownMaterial(mats, x))[k])]

RECURSIVE LikedLoop(_, _, _, _, _, _)
(* The loop over liked_materials for one material: the list similarities *)
LikedLoop(mats, text, material_id, liked, l, similarities) ==
    IF l > Len(liked) THEN similarities
    ELSE IF ~KnownMaterial(mats, liked[l])
         THEN LikedLoop(mats, text, material_id, liked, l + 1, similarities)
         ELSE IF get_combined_similarity(mats, text, material_id, liked[l]) * TextDen
                    > significant * CombinedDen
              THEN LikedLoop(mats, text, material_id, liked, l + 1,
                       Append(similarities,
                              get_combined_similarity(mats, text, material_id,
                                                      liked[l])))
              ELSE LikedLoop(mats, text, material_id, liked, l + 1, similarities)

(* sum(similarities) / len(similarities), in 1/MeanDen; 0 when empty *)
MeanOf(similarities) ==
    IF similarities # <<>>
    THEN SumSeq(similarities, 1) * ((MeanDen \div CombinedDen) \div Len(similarities))
    ELSE 0

ScoreEntry(liked_material_score) ==
    [liked_material_score |-> liked_material_score,
     preference_vector_score |-> 0,
     categorical_score |-> 0,
     seasonal_score |-> 0,
     total_score |-> liked_material_score]

(* The materials that get an entry: all but the liked ones, and none when  *)
(* the user has no liked material                                          *)
ScoredIds(mats, liked) ==
    IF liked = <<>> THEN {}
    ELSE {mats[i].material_id : i \in DOMAIN mats} \ Range(liked)

(* material_scores, empty before the call, after _score_by_liked_materials *)
score_by_liked_materials(mats, text, liked) ==
    [material_id \in ScoredIds(mats, liked) |->
        ScoreEntry(MeanOf(LikedLoop(mats, text, material_id, liked, 1, <<>>)))]

----------------------------------------------------------------------------
(* Input data: the catalogs and the event data sets the service is run on  *)

Day(period) == period * half_life

MatA == [material_id |-> "A", author_id |-> "a1", categories |-> <<"Math">>,
         class_grades |-> <<"3">>, price |-> 100, bestseller_rating |-> 900,
         created_at |-> TimeStr(30)]
MatB == [material_id |-> "B", author_id |-> "a1", categories |-> <<"Math">>,
         class_grades |-> <<"3">>, price |-> 150, bestseller_rating |-> 800,
         created_at |-> TimeStr(-100)]
MatC == [material_id |-> "C", author_id |-> "a2", categories |-> <<"Art">>,
         class_grades |-> <<"5">>, price |-> 500, bestseller_rating |-> 950,
         created_at |-> TimeStr(-400)]
(* no categories: never scored, eligible for the bestseller padding *)
MatD == [material_id |-> "D", author_id |-> "a1", class_grades |-> <<"3">>,
         price |-> 0, bestseller_rating |-> 700, created_at |-> BadTime]
(* empty categories and no rating *)
MatE == [material_id |-> "E", author_id |-> "a2", categories |-> <<>>,
         class_grades |-> <<"5">>, price |-> 250, created_at |-> TimeStr(0)]
MatF == [material_id |-> "F", author_id |-> "a1",
         categories |-> <<"Math Games", "Art">>, class_grades |-> <<"3", "5">>,
         price |-> 800, bestseller_rating |-> 1200,
         created_at |-> TimeStr(-300), updated_at |-> TimeStr(0)]
(* no price; categories "Unknown" *)
MatG == [material_id |-> "G", author_id |-> "a1", categories |-> <<"Unknown">>,
         class_grades |-> <<"5">>, bestseller_rating |-> 300,
         created_at |-> TimeStr(-200)]

(* no grades: never scored; a lower rating than D but a recent date *)
MatH == [material_id |-> "H", author_id |-> "a2", categories |-> <<"Art">>,
         price |-> 300, bestseller_rating |-> 500, created_at |-> TimeStr(0)]

Catalogs ==
    { <<>>,
      <<MatD, MatH, MatA>>,
      <<MatA, MatB, MatC>>,
      <<MatA, MatB, MatC, MatD, MatE>>,
      <<MatG, MatF, MatD, MatB, MatA>>,
      <<MatD, MatE>> }

NoEvents == [t \in Range(EventFiles) |-> <<>>]

(* one purchase of A *)
EventsOnePurchase ==
    [NoEvents EXCEPT
        !["purchases"] = <<[user_id |-> "u1", material_id |-> "A",
                            time |-> TimeStr(Day(2)), price_euro |-> 100]>>]

EventsMixed ==
    [NoEvents EXCEPT
        !["purchases"] = <<[user_id |-> "u1", material_id |-> "A",
                            time |-> TimeStr(Day(0)), price_euro |-> 100],
                           [user_id |-> "u1", material_id |-> "C",
                            time |-> TimeStr(Day(2)), price_euro |-> 500]>>,
        !["addToFavorites"] = <<[user_id |-> "u1", material_id |-> "B",
                                 time |-> TimeStr(Day(1))]>>,
        !["viewMaterial"] = <<[user_id |-> "u2", material_id |-> "C",
                               time |-> TimeStr(Day(1))]>>,
        !["searches"] = <<[user_id |-> "u1",
                           search_keyword |-> "math games grade 3",
                           search_frequency |-> 2,
                           last_search_date |-> TimeStr(Day(0))]>>]

EventsSparse ==
    [NoEvents EXCEPT
        !["purchases"] = <<[user_id |-> "u2", material_id |-> "A",
                            time |-> TimeStr(Day(1)), price_euro |-> 100],
                           [user_id |-> "u2", material_id |-> "B",
                            date |-> TimeStr(Day(1)), price_euro |-> 150],
                           [user_id |-> "u2", material_id |-> "C",
                            price_euro |-> 800]>>,
        !["freeDownload"] = <<[user_id |-> "u1", material_id |-> "D",
                               time |-> BadTime]>>,
        !["addToCart"] = <<[user_id |-> "u1", material_id |-> "F"]>>,
        !["showMaterialPreview"] = <<[user_id |-> "u1", material_id |-> "X",
                                      categories |-> <<"Art">>,
                                      class_grades |-> <<"5">>,
                                      time |-> TimeStr(Day(1))]>>,
        !["searches"] = <<[user_id |-> "u2", search_keyword |-> "ART",
                           last_search_date |-> TimeStr(Day(2))]>>]

(* u1 purchased the Math materials A and B one half-life before the Art    *)
(* material C: the two categories, and the two grades, weigh the same      *)
EventsTie ==
    [NoEvents EXCEPT
        !["purchases"] = <<[user_id |-> "u1", material_id |-> "A",
                            time |-> TimeStr(Day(1)), price_euro |-> 100],
                           [user_id |-> "u1", material_id |-> "B",
                            time |-> TimeStr(Day(1)), price_euro |-> 150],
                           [user_id |-> "u1", material_id |-> "C",
                            time |-> TimeStr(Day(2)), price_euro |-> 500]>>]

EventDataSets == {NoEvents, EventsOnePurchase, EventsMixed, EventsSparse, EventsTie}

(* "u0" has no event in any data set; "" is the user id that is not truthy *)
UserIds == {"", "u0", "u1", "u2"}

Limits == 1..MaxLimit
DiversityFactors == 0..DiversityDen

----------------------------------------------------------------------------
(* The service: RecommendationService / PersonalizationService calls       *)

NoRequest == [call |-> "", user_id |-> "", limit |-> 0, diversity_factor |-> 0]

PureIdle ==
    /\ price = 0
    /\ ranges = None
    /\ decay_args = None
    /\ decay = None

(* No thread is calling into the shared objects, nothing is loaded *)
LazyIdle ==
    /\ repository = FreshRepository
    /\ personalization = FreshService
    /\ thread = [t \in Threads |-> IdleThread]

(* The content-based engine has loaded and scored nothing *)
NoRuleCall == [call |-> "", user_id |-> "", limit |-> 0]

(* no rule-based service or engine was made or called *)
EngineIdle ==
    /\ service_module = ""
    /\ recommendation_engine = None
    /\ rule_call = NoRuleCall
    /\ rule_response = None
    /\ returned_initialize = FALSE

ContentIdle ==
    /\ cb_materials = <<>>
    /\ tfidf = <<>>
    /\ liked_material_ids = <<>>
    /\ compared = None
    /\ material_scores = None

(* rule_based_v1 has loaded and built nothing *)
V1Idle ==
    /\ data_loader = EmptyLoader
    /\ user_profiles = NoProfiles
    /\ printed = <<>>
    /\ built = ""

Init ==
    /\ materials \in Catalogs
    /\ event_data \in EventDataSets
    /\ now = Day(NowStartPeriod)
    /\ op = "idle"
    /\ req = NoRequest
    /\ profile = None
    /\ recommendations = <<>>
    /\ scored = <<>>
    /\ fallback = <<>>
    /\ explanation = None
    /\ PureIdle
    /\ LazyIdle
    /\ V1Idle
    /\ ContentIdle
    /\ EngineIdle

(* The wall clock advances between and during calls *)
Tick ==
    /\ now < Day(MaxNowPeriod)
    /\ now' = now + half_life
    /\ UNCHANGED <<materials, event_data, op, req, profile, recommendations,
                   scored, fallback, explanation>>
    /\ UNCHANGED <<pure_vars, lazy_vars, v1_vars, content_vars, engine_vars>>

(* A caller invokes the service; the previous response is dropped *)
Call(request) ==
    /\ op # "called"
    /\ op' = "called"
    /\ req' = request
    /\ profile' = None
    /\ recommendations' = <<>>
    /\ scored' = <<>>
    /\ fallback' = <<>>
    /\ explanation' = None
    /\ UNCHANGED <<materials, event_data, now>>
    /\ UNCHANGED <<pure_vars, lazy_vars, v1_vars, content_vars, engine_vars>>

ProfileRequests ==
    {[call |-> "get_user_profile", user_id |-> user_id, limit |-> 0,
      diversity_factor |-> 0] : user_id \in UserIds}

RecommendationRequests ==
    {[call |-> "get_recommendations", user_id |-> user_id, limit |-> limit,
      diversity_factor |-> diversity_factor] :
        user_id \in UserIds, limit \in Limits,
        diversity_factor \in DiversityFactors}

(* PersonalizationService.get_user_profile(user_id) *)
GetUserProfile ==
    /\ op = "called"
    /\ req.call = "get_user_profile"
    /\ op' = "returned"
    /\ profile' = Some(create_user_profile(event_data, materials, req.user_id, now))
    /\ UNCHANGED <<materials, event_data, now, req, recommendations, scored,
                   fallback, explanation>>
    /\ UNCHANGED <<pure_vars, lazy_vars, v1_vars, content_vars, engine_vars>>

(* The ids random.random() is drawn for: the materials that get scored *)
DrawIds == {materials[i].material_id : i \in DOMAIN materials}

(* The random draws of one call: the materials of high draw the greatest   *)
(* value of random.random(), the others the least; one material alone, all *)
(* of them or none draw high.                                              *)
DrawChoices == {{}, DrawIds} \cup {{id} : id \in DrawIds}

Draws(high) == [id \in DrawIds |-> IF id \in high THEN CombDen - 1 ELSE 0]

(* The call returns: the profile it built and the outcome of               *)
(* recommend_materials                                                     *)
Return(user_profile, outcome) ==
    /\ op' = "returned"
    /\ profile' = Some(user_profile)
    /\ recommendations' = outcome.result
    /\ scored' = outcome.scored
    /\ fallback' = outcome.fallback
    /\ UNCHANGED <<materials, event_data, now, req, explanation>>
    /\ UNCHANGED <<pure_vars, lazy_vars, v1_vars, content_vars, engine_vars>>

RecommendFor(user_profile, high) ==
    Return(user_profile,
           recommend_materials(event_data, materials, user_profile, req.limit,
                               req.diversity_factor, Draws(high), now))

(* RecommendationService.get_recommendations_for_user(user_id, limit,      *)
(* diversity_factor)                                                       *)
GetRecommendationsForUser(high) ==
    /\ op = "called"
    /\ req.call = "get_recommendations"
    /\ RecommendFor(create_user_profile(event_data, materials, req.user_id, now),
                    high)

(* service.explain_recommendations(recommendations), on the list the last  *)
(* call returned                                                           *)
ExplainRecommendations ==
    /\ op = "returned"
    /\ req.call = "get_recommendations"
    /\ op' = "explained"
    /\ explanation' = Some(explain_recommendations(recommendations))
    /\ UNCHANGED <<materials, event_data, now, req, profile, recommendations,
                   scored, fallback>>
    /\ UNCHANGED <<pure_vars, lazy_vars, v1_vars, content_vars, engine_vars>>

Next ==
    \/ Tick
    \/ \E request \in ProfileRequests \cup RecommendationRequests : Call(request)
    \/ GetUserProfile
    \/ \E high \in DrawChoices : GetRecommendationsForUser(high)
    \/ ExplainRecommendations

Spec == Init /\ [][Next]_vars

----------------------------------------------------------------------------
(* The service over the catalog A, B, C with every age of B and of C, and  *)
(* the user u1 whose only event is one purchase of A                       *)

RankCreatedDays == {50, -100, -400}

RankCatalogs ==
    { <<MatA, [MatB EXCEPT !.created_at = TimeStr(b)],
              [MatC EXCEPT !.created_at = TimeStr(c)]>> :
        b \in RankCreatedDays, c \in RankCreatedDays }

InitRank ==
    /\ materials \in RankCatalogs
    /\ event_data = EventsOnePurchase
    /\ now = Day(NowStartPeriod)
    /\ op = "idle"
    /\ req = NoRequest
    /\ profile = None
    /\ recommendations = <<>>
    /\ scored = <<>>
    /\ fallback = <<>>
    /\ explanation = None
    /\ PureIdle
    /\ LazyIdle
    /\ V1Idle
    /\ ContentIdle
    /\ EngineIdle

SpecRank == InitRank /\ [][Next]_vars

----------------------------------------------------------------------------
(* The price bucket functions, applied to every price of the bound *)

ServiceIdle ==
    /\ materials = <<>>
    /\ event_data = NoEvents
    /\ now = 0
    /\ op = "idle"
    /\ req = NoRequest
    /\ profile = None
    /\ recommendations = <<>>
    /\ scored = <<>>
    /\ fallback = <<>>
    /\ explanation = None

InitPrice ==
    /\ ServiceIdle
    /\ price \in 0..MaxPriceCents
    /\ ranges = None
    /\ decay_args = None
    /\ decay = None
    /\ LazyIdle
    /\ V1Idle
    /\ ContentIdle
    /\ EngineIdle

GetPriceRange ==
    /\ ranges = None
    /\ ranges' = Some([recommender |-> recommender_get_price_range(price),
                       service |-> service_get_price_range(price),
                       analyzer |-> analyzer_get_price_range(price),
                       v1 |-> v1_get_price_range(price),
                       v2 |-> v2_get_price_range(price)])
    /\ UNCHANGED <<service_vars, price, decay_args, decay, lazy_vars, v1_vars, content_vars, engine_vars>>

NextPrice == GetPriceRange

SpecPrice == InitPrice /\ [][NextPrice]_vars

----------------------------------------------------------------------------
(* calculate_time_decay, applied to the event and reference times of the   *)
(* bound, to an unparseable time and to a time far in the past             *)

AncientDay == -(DoubleMinExponent * half_life)

DecayEventTimes ==
    {TimeStr(d) : d \in 0..MaxDecayDay} \cup {TimeStr(AncientDay), BadTime}

DecayReferenceTimes == {None} \cup {Some(d) : d \in 0..MaxDecayDay}

InitDecay ==
    /\ materials = <<>>
    /\ event_data = NoEvents
    /\ now \in {0, MaxDecayDay}
    /\ op = "idle"
    /\ req = NoRequest
    /\ profile = None
    /\ recommendations = <<>>
    /\ scored = <<>>
    /\ fallback = <<>>
    /\ price = 0
    /\ ranges = None
    /\ decay_args \in {Some([event_time |-> e, reference_time |-> r]) :
                          e \in DecayEventTimes, r \in DecayReferenceTimes}
    /\ decay = None
    /\ explanation = None
    /\ LazyIdle
    /\ V1Idle
    /\ ContentIdle
    /\ EngineIdle

CalculateTimeDecay ==
    /\ decay = None
    /\ decay' = Some(calculate_time_decay(Val(decay_args).event_time,
                                          Val(decay_args).reference_time, now))
    /\ UNCHANGED <<service_vars, price, ranges, decay_args, lazy_vars, v1_vars, content_vars, engine_vars>>

NextDecay == CalculateTimeDecay

SpecDecay == InitDecay /\ [][NextDecay]_vars

----------------------------------------------------------------------------
(* Threads calling DataRepository.get_materials, get_event_data and the    *)
(* content-based PersonalizationService.initialize on shared objects.  No  *)
(* method takes a lock; a thread can be preempted between two statements.  *)

InitLazy ==
    /\ ServiceIdle
    /\ PureIdle
    /\ LazyIdle
    /\ V1Idle
    /\ ContentIdle
    /\ EngineIdle

(* A thread enters a method, at its first statement.  The threads call the *)
(* repository and the content-based service; a rule-based service is       *)
(* called one call at a time.                                              *)
Enter(t, pc) ==
    /\ service_module \notin {"rule_based_v1", "rule_based_v2"}
    /\ thread[t].pc = "idle"
    /\ thread[t].calls < MaxCalls
    /\ thread' = [thread EXCEPT ![t] = [pc |-> pc, calls |-> @.calls + 1,
                                         result |-> None]]

Goto(t, pc) == thread' = [thread EXCEPT ![t].pc = pc]

Leave(t, result) == thread' = [thread EXCEPT ![t].pc = "idle", ![t].result = result]

CallGetMaterials(t) ==
    /\ Enter(t, "get_materials")
    /\ UNCHANGED <<repository, personalization, service_vars, pure_vars, v1_vars, content_vars, engine_vars>>

(* if self._materials is None: *)
CheckMaterials(t) ==
    /\ thread[t].pc = "get_materials"
    /\ Goto(t, IF repository._materials = None THEN "load_materials"
                                                ELSE "return_materials")
    /\ UNCHANGED <<repository, personalization, service_vars, pure_vars, v1_vars, content_vars, engine_vars>>

(* materials_list = self.loader.load_material_data(...);                   *)
(* self._materials = {...}: a new dictionary replaces the field            *)
LoadMaterials(t) ==
    /\ thread[t].pc = "load_materials"
    /\ repository' = [repository EXCEPT
                         !._materials = Some(repository.materials_loaded + 1),
                         !.materials_loaded = @ + 1]
    /\ Goto(t, "return_materials")
    /\ UNCHANGED <<personalization, service_vars, pure_vars, v1_vars, content_vars, engine_vars>>

(* return self._materials *)
ReturnMaterials(t) ==
    /\ thread[t].pc = "return_materials"
    /\ Leave(t, repository._materials)
    /\ UNCHANGED <<repository, personalization, service_vars, pure_vars, v1_vars, content_vars, engine_vars>>

CallGetEventData(t) ==
    /\ Enter(t, "get_event_data")
    /\ UNCHANGED <<repository, personalization, service_vars, pure_vars, v1_vars, content_vars, engine_vars>>

(* if self._event_data is None: *)
CheckEventData(t) ==
    /\ thread[t].pc = "get_event_data"
    /\ Goto(t, IF repository._event_data = None THEN "load_event_data"
                                                 ELSE "return_event_data")
    /\ UNCHANGED <<repository, personalization, service_vars, pure_vars, v1_vars, content_vars, engine_vars>>

(* self._event_data = self._load_all_event_data() *)
LoadEventData(t) ==
    /\ thread[t].pc = "load_event_data"
    /\ repository' = [repository EXCEPT
                         !._event_data = Some(repository.events_loaded + 1),
                         !.events_loaded = @ + 1]
    /\ Goto(t, "return_event_data")
    /\ UNCHANGED <<personalization, service_vars, pure_vars, v1_vars, content_vars, engine_vars>>

(* return self._event_data *)
ReturnEventData(t) ==
    /\ thread[t].pc = "return_event_data"
    /\ Leave(t, repository._event_data)
    /\ UNCHANGED <<repository, personalization, service_vars, pure_vars, v1_vars, content_vars, engine_vars>>

(* PersonalizationService.initialize() is entered: nothing guards it *)
CallInitialize(t) ==
    /\ Enter(t, "load_data")
    /\ UNCHANGED <<repository, personalization, service_vars, pure_vars, v1_vars, content_vars, engine_vars>>

(* self.data_loader = DataLoader(...).load_data().prepare_content_features() *)
LoadData(t) ==
    /\ thread[t].pc = "load_data"
    /\ personalization' = [personalization EXCEPT
                              !.data_loader = Some(personalization.loaded + 1),
                              !.loaded = @ + 1]
    /\ Goto(t, "build_feature_vectors")
    /\ UNCHANGED <<repository, service_vars, pure_vars, v1_vars, content_vars, engine_vars>>

(* self.feature_extractor =                                                *)
(*     ContentFeatureExtractor(self.data_loader).build_feature_vectors()   *)
BuildFeatureVectors(t) ==
    /\ thread[t].pc = "build_feature_vectors"
    /\ personalization' = [personalization EXCEPT
                              !.feature_extractor = Some(personalization.built + 1),
                              !.built = @ + 1]
    /\ Goto(t, "analyze_user_profiles")
    /\ UNCHANGED <<repository, service_vars, pure_vars, v1_vars, content_vars, engine_vars>>

(* self.profile_analyzer = UserProfileAnalyzer(self.data_loader,           *)
(*     self.feature_extractor).analyze_user_profiles()                     *)
AnalyzeUserProfiles(t) ==
    /\ thread[t].pc = "analyze_user_profiles"
    /\ personalization' = [personalization EXCEPT
                              !.profile_analyzer = personalization.feature_extractor]
    /\ Goto(t, "init_recommender")
    /\ UNCHANGED <<repository, service_vars, pure_vars, v1_vars, content_vars, engine_vars>>

(* self.recommender = ContentBasedRecommender(self.data_loader,            *)
(*     self.feature_extractor, self.profile_analyzer); return self         *)
InitRecommender(t) ==
    /\ thread[t].pc = "init_recommender"
    /\ personalization' = [personalization EXCEPT
                              !.recommender = personalization.feature_extractor]
    /\ Leave(t, personalization.feature_extractor)
    /\ returned_initialize' = TRUE
    /\ UNCHANGED <<service_module, recommendation_engine, rule_call, rule_response>>
    /\ UNCHANGED <<repository, service_vars, pure_vars, v1_vars, content_vars>>

NextLazy ==
    \E t \in Threads :
        \/ CallGetMaterials(t)
        \/ CheckMaterials(t)
        \/ LoadMaterials(t)
        \/ ReturnMaterials(t)
        \/ CallGetEventData(t)
        \/ CheckEventData(t)
        \/ LoadEventData(t)
        \/ ReturnEventData(t)
        \/ CallInitialize(t)
        \/ LoadData(t)
        \/ BuildFeatureVectors(t)
        \/ AnalyzeUserProfiles(t)
        \/ InitRecommender(t)

SpecLazy == InitLazy /\ [][NextLazy]_vars

----------------------------------------------------------------------------
(* rule_based_v1: build_profiles over loaded behavior lists, some of them   *)
(* with a record that has no user_id                                       *)

(* The material of a behavior record: the one of RulePool with the         *)
(* record's category and grade                                             *)
RecordMaterialId(category, grade) ==
    IF category = "Math" THEN "A"
    ELSE IF grade = "5" THEN "C" ELSE "E"

V1Record(user_id, category, grade, cents, day) ==
    [user_id |-> user_id, material_id |-> RecordMaterialId(category, grade),
     material_category |-> category,
     class_grade |-> grade, purchase_price |-> cents, material_price |-> cents,
     is_bundle |-> "0", user_device |-> "desktop", date |-> day,
     type |-> "click", query |-> "math"]

(* the same record without the key user_id *)
NoUserId(record) == [key \in DOMAIN record \ {"user_id"} |-> record[key]]

RuleMaterial(material_id, category, grade, cents, rating) ==
    [material_id |-> material_id, title |-> material_id, category |-> category,
     class_grade |-> grade, price |-> cents, bestseller_rating |-> rating,
     is_bundle |-> "0"]

RulePool ==
    <<RuleMaterial("A", "Math", "3", 100, 50),
      RuleMaterial("B", "Math", "3", 250, 90),
      RuleMaterial("C", "Art", "5", 500, 70),
      RuleMaterial("D", "Math", "3", 0, 30),
      RuleMaterial("E", "Art", "3", 700, 70),
      RuleMaterial("F", "Art", "5", 650, 20)>>

RulePools == {RulePool, SubSeq(RulePool, 1, 3)}

V1Purchases ==
    { <<>>,
      <<V1Record("u1", "Math", "3", 100, 10)>>,
      <<V1Record("u1", "Math", "3", 100, 10), V1Record("u2", "Art", "5", 500, 20)>>,
      <<V1Record("u2", "Math", "3", 100, 10)>>,
      <<V1Record("u1", "Math", "3", 100, 10),
        NoUserId(V1Record("u3", "Art", "5", 800, 15)),
        V1Record("u2", "Art", "5", 500, 20)>> }

V1Favorites ==
    { <<>>,
      <<V1Record("u2", "Math", "3", 0, 30)>>,
      <<NoUserId(V1Record("u3", "Art", "5", 300, 5)),
        V1Record("u2", "Math", "3", 0, 30)>> }

V1Interactions ==
    { <<>>,
      <<V1Record("u1", "Art", "5", 350, 40),
        [V1Record("u2", "Art", "3", 700, 1) EXCEPT !.type = "view_preview"]>>,
      <<[V1Record("u1", "Art", "5", 350, 40) EXCEPT !.type = "add_to_cart"],
        NoUserId(V1Record("u3", "Math", "3", 100, 2))>> }

V1Searches ==
    { <<>>,
      <<V1Record("u1", "", "", 0, 50)>>,
      <<[V1Record("u2", "", "", 0, 25) EXCEPT !.query = "art"],
        V1Record("u2", "", "", 0, 12)>>,
      <<V1Record("u1", "", "", 0, 50), NoUserId(V1Record("u3", "", "", 0, 60)),
        [V1Record("u3", "", "", 0, 5) EXCEPT !.query = "art"]>> }

InitV1 ==
    /\ ServiceIdle
    /\ PureIdle
    /\ LazyIdle
    /\ data_loader \in [materials : RulePools,
                         purchases : V1Purchases, favorites : V1Favorites,
                         interactions : V1Interactions, searches : V1Searches]
    /\ user_profiles = NoProfiles
    /\ printed = <<>>
    /\ built = ""
    /\ ContentIdle
    /\ EngineIdle

Built(b) ==
    /\ user_profiles' = b.user_profiles
    /\ printed' = b.printed
    /\ built' = IF b.raised = "" THEN "returned" ELSE b.raised

(* UserProfileBuilder(data_loader).build_profiles() *)
BuildProfiles ==
    /\ built = ""
    /\ Built(build_profiles(data_loader))
    /\ UNCHANGED <<data_loader, service_vars, pure_vars, lazy_vars, content_vars, engine_vars>>


----------------------------------------------------------------------------
(* The content-based engine: similarity queries and the scoring by liked   *)
(* materials, over catalogs of materials with categorical fields           *)

Scalar(value) == [scalar |-> value]
ListOf(values) == [list |-> values]

CM1 == [material_id |-> "m1", category |-> Scalar("Math"),
        class_grade |-> Scalar("3"), seasonal_relevance |-> ListOf(<<"Winter">>)]
CM2 == [material_id |-> "m2", category |-> Scalar("Math"),
        class_grade |-> Scalar("3"),
        seasonal_relevance |-> ListOf(<<"Winter", "Herbst">>)]
CM3 == [material_id |-> "m3", category |-> Scalar("Art"),
        class_grade |-> Scalar("5"), format |-> Scalar("pdf")]
(* relevant to no season *)
CM4 == [material_id |-> "m4", category |-> Scalar("Math"),
        seasonal_relevance |-> ListOf(<<>>)]
(* no categorical field *)
CM5 == [material_id |-> "m5"]
(* several categories, and a season that is not a list *)
CM6 == [material_id |-> "m6", category |-> ListOf(<<"Math", "Art">>),
        seasonal_relevance |-> Scalar("Winter"), is_bundle |-> Scalar("True")]
CM7 == [material_id |-> "m7", category |-> Scalar("Math"),
        class_grade |-> Scalar("3"), seasonal_relevance |-> ListOf(<<"Herbst">>)]

ContentCatalogs ==
    { <<CM1, CM2, CM3>>,
      <<CM1, CM2, CM4, CM7>>,
      <<CM5, CM6, CM3, CM1>> }

ContentIds(mats) == {mats[i].material_id : i \in DOMAIN mats}

(* The cosine table of a catalog: 1 for a material and itself, close for   *)
(* the pairs of near, far for the others; symmetric                        *)
CosineTable(mats, near, close, far) ==
    [pr \in ContentIds(mats) \X ContentIds(mats) |->
        IF pr[1] = pr[2] THEN TextDen
        ELSE IF pr[1] \in near \/ pr[2] \in near THEN close ELSE far]

(* The tables of a catalog; the empty one is that of an extractor whose    *)
(* vectors were not built                                                  *)
CosineTables(mats) ==
    { <<>>,
      CosineTable(mats, {}, 0, 0),
      CosineTable(mats, {}, 0, 5),
      CosineTable(mats, {"m1"}, TextDen, 5) }

(* list(liked_materials): ids in the order of the set, known or not *)
LikedLists ==
    { <<>>, <<"m1">>, <<"m2", "m1">>, <<"m1", "m2", "m4">>, <<"m3", "zz">>,
      <<"zz">> }

(* The ids similarity is asked for *)
QueryIds == {"m1", "m2", "m3", "m4", "m5", "m6", "m7", "zz"}

InitContent ==
    /\ ServiceIdle
    /\ PureIdle
    /\ LazyIdle
    /\ V1Idle
    /\ EngineIdle
    /\ cb_materials \in ContentCatalogs
    /\ tfidf \in CosineTables(cb_materials)
    /\ liked_material_ids \in LikedLists
    /\ compared = None
    /\ material_scores = None

(* feature_extractor.get_categorical_similarity and get_combined_similarity *)
(* of one pair of ids                                                      *)
GetSimilarity(material_id1, material_id2) ==
    /\ compared' = Some([material_id1 |-> material_id1,
                         material_id2 |-> material_id2,
                         categorical |->
                            get_categorical_similarity(cb_materials, material_id1,
                                                       material_id2),
                         combined |->
                            get_combined_similarity(cb_materials, tfidf,
                                                    material_id1, material_id2)])
    /\ UNCHANGED <<cb_materials, tfidf, liked_material_ids, material_scores>>
    /\ UNCHANGED <<service_vars, pure_vars, lazy_vars, v1_vars, engine_vars>>

(* recommender._score_by_liked_materials(user_id, material_scores) with an *)
(* empty material_scores                                                   *)
ScoreByLikedMaterials ==
    /\ material_scores' = Some(score_by_liked_materials(cb_materials, tfidf,
                                                         liked_material_ids))
    /\ UNCHANGED <<cb_materials, tfidf, liked_material_ids, compared>>
    /\ UNCHANGED <<service_vars, pure_vars, lazy_vars, v1_vars, engine_vars>>

NextContent ==
    \/ \E material_id1, material_id2 \in QueryIds :
          GetSimilarity(material_id1, material_id2)
    \/ ScoreByLikedMaterials

SpecContent == InitContent /\ [][NextContent]_vars

----------------------------------------------------------------------------
(* Properties of the recommendation result *)

Returned == op = "returned" /\ req.call = "get_recommendations"

(* The material ids of the user's events of one file *)
EventIds(event_type, user_id) ==
    {event_data[event_type][i].material_id :
        i \in {j \in DOMAIN event_data[event_type] :
                  /\ Has(event_data[event_type][j], "material_id")
                  /\ UserEventOf(user_id, event_data[event_type][j])}}

(* What the user purchased, downloaded or liked.  The event files hold no  *)
(* dislikes.                                                               *)
Known(user_id) ==
    EventIds("purchases", user_id) \cup EventIds("freeDownload", user_id)
        \cup EventIds("addToFavorites", user_id)

Eligible == {i \in DOMAIN materials : materials[i].material_id \notin Known(req.user_id)}

ResultIds == {recommendations[i].material_id : i \in DOMAIN recommendations}

(* C1: whenever at least limit eligible materials exist, the result has    *)
(* exactly limit items.                                                    *)
C1_ExactlyLimit ==
    (Returned /\ Cardinality(Eligible) >= req.limit)
        => Len(recommendations) = req.limit

(* C2: no material the user purchased, downloaded or liked is in the       *)
(* user's result.                                                          *)
C2_NoKnownMaterial == Returned => ResultIds \cap Known(req.user_id) = {}

ByAuthor(author_id) ==
    {i \in DOMAIN recommendations : recommendations[i].author_id = author_id}

(* C3: no author contributes more than max_per_author items to a result.   *)
C3_AuthorCap ==
    Returned =>
        \A i \in DOMAIN recommendations :
            Cardinality(ByAuthor(recommendations[i].author_id)) <= max_per_author

(* The two pools, from the inputs of the call: the candidates are the      *)
(* materials the user neither purchased nor downloaded; a candidate with   *)
(* categories and grades is scored, another one with a bestseller rating   *)
(* is in the fallback pool.                                                *)
CandidatePool ==
    {i \in DOMAIN materials :
        materials[i].material_id \notin
            EventIds("purchases", req.user_id) \cup EventIds("freeDownload", req.user_id)}

ScoredPool == {i \in CandidatePool : HasKeyData(materials[i])}

FallbackPool ==
    {i \in CandidatePool \ ScoredPool : TruthyNumber(materials[i], "bestseller_rating")}

(* C4: the result has min(limit, scored candidates + fallback pool) items, *)
(* never more than limit; for a user id that is given, the scored          *)
(* candidates are those of ScoredPool and the fallback pool, built when    *)
(* they are fewer than limit, is FallbackPool.                             *)
C4_ResultLength ==
    Returned =>
        /\ Len(recommendations) = Min(req.limit, Len(scored) + Len(fallback))
        /\ Len(recommendations) <= req.limit
        /\ (req.user_id # "") =>
              /\ Len(scored) = Cardinality(ScoredPool)
              /\ (Len(scored) < req.limit) => Len(fallback) = Cardinality(FallbackPool)

(* C4's case: both pools contribute and the result is still short of limit *)
C4_Witness ==
    /\ Returned
    /\ \E i \in DOMAIN recommendations : recommendations[i].is_fallback
    /\ \E i \in DOMAIN recommendations : ~recommendations[i].is_fallback
    /\ Len(recommendations) < req.limit

(* C5: every non-fallback item of a result precedes every fallback item,   *)
(* so a fallback item never outranks a non-fallback item, whatever their   *)
(* scores.                                                                 *)
C5_FallbackLast ==
    Returned =>
        \A i, j \in DOMAIN recommendations :
            (i < j) => ~(recommendations[i].is_fallback
                           /\ ~recommendations[j].is_fallback)

(* C5's case: a fallback item with a greater score follows a scored item *)
C5_Witness ==
    /\ Returned
    /\ \E i, j \in DOMAIN recommendations :
          /\ i < j
          /\ ~recommendations[i].is_fallback
          /\ recommendations[j].is_fallback
          /\ recommendations[j].score > recommendations[i].score

(* The user of the call has no event in any file *)
ColdStart ==
    \A t \in Range(EventFiles) :
        \A i \in DOMAIN event_data[t] : ~UserEventOf(req.user_id, event_data[t][i])

Popularity(item) == item.recommendation_factors.popularity * item.recommendation_factors.freshness

(* C6: a user without events gets the popularity baseline: zero category,  *)
(* grade and price components, no item flagged fallback, in descending     *)
(* order of popularity.                                                    *)
C6_PopularityBaseline ==
    (Returned /\ ColdStart) =>
        /\ \A i \in DOMAIN recommendations :
              /\ recommendations[i].recommendation_factors.category_match = 0
              /\ recommendations[i].recommendation_factors.grade_match = 0
              /\ recommendations[i].recommendation_factors.price_match = 0
              /\ ~recommendations[i].is_fallback
        /\ \A i, j \in DOMAIN recommendations :
              (i < j) => Popularity(recommendations[i]) >= Popularity(recommendations[j])

UnscoredIds == {materials[m].material_id : m \in CandidatePool \ ScoredPool}

CatalogIndex(material_id) ==
    CHOOSE m \in DOMAIN materials : materials[m].material_id = material_id

(* popularity x freshness in the unit of a final score *)
FallbackScore(item) == Popularity(item) * 20 * DiversityDen

(* C21: a fallback item is in a result only when fewer than limit          *)
(* candidates were scored; it is a candidate that was not scored, has zero *)
(* category, grade and price scores and the score popularity x freshness,  *)
(* and the fallback items of a result are in descending order of score.    *)
C21_FallbackPool ==
    Returned =>
        \A i \in DOMAIN recommendations :
            recommendations[i].is_fallback =>
                /\ Cardinality(ScoredPool) < req.limit
                /\ recommendations[i].material_id \in UnscoredIds
                /\ recommendations[i].recommendation_factors.category_match = 0
                /\ recommendations[i].recommendation_factors.grade_match = 0
                /\ recommendations[i].recommendation_factors.price_match = 0
                /\ recommendations[i].score = FallbackScore(recommendations[i])
                /\ \A j \in DOMAIN recommendations :
                      (i < j /\ recommendations[j].is_fallback)
                          => recommendations[i].score >= recommendations[j].score

(* C21's case: after a scored item, two fallback items in the reverse of   *)
(* their catalog order, the first with the lower rating and the greater    *)
(* score                                                                   *)
C21_Witness ==
    /\ Returned
    /\ \E h, i, j \in DOMAIN recommendations :
          /\ h < i /\ i < j
          /\ ~recommendations[h].is_fallback
          /\ recommendations[i].is_fallback
          /\ recommendations[j].is_fallback
          /\ recommendations[i].score > recommendations[j].score
          /\ recommendations[i].recommendation_factors.popularity
                < recommendations[j].recommendation_factors.popularity
          /\ CatalogIndex(recommendations[i].material_id)
                > CatalogIndex(recommendations[j].material_id)

(* The material a returned item was made of *)
MaterialOf(item) == materials[CatalogIndex(item.material_id)]

(* The age of a material at the time of the call: the days since the later *)
(* of created and updated, one year when the created date is unparseable   *)
AgeAtCall(material) ==
    Val(profile).profile_generation_time
        - LatestDate(OrElse(ParseDate(material, "created_at"),
                            Val(profile).profile_generation_time - default_age_days),
                     ParseDate(material, "updated_at"))

(* 1.5 below 90 days, 1.0 from 90 up to and including 365 days, 0.7 above *)
StatedFreshness(age_days) ==
    IF age_days < recent_days THEN recent_factor
    ELSE IF age_days <= standard_days THEN standard_factor
    ELSE older_factor

(* C22: the freshness factor of a returned item is 1.5 for a material age  *)
(* below 90 days, 1.0 for an age from 90 up to and including 365 days and  *)
(* 0.7 for a greater age, the age of a material with unparseable dates     *)
(* being one year.                                                         *)
C22_FreshnessBands ==
    Returned =>
        \A i \in DOMAIN recommendations :
            recommendations[i].recommendation_factors.freshness
                = StatedFreshness(AgeAtCall(MaterialOf(recommendations[i])))

BucketPosition == [free |-> 1, low |-> 2, medium |-> 3, high |-> 4]

(* 1.0 for the preferred bucket, 0.5 for a neighbour of it in the order    *)
(* free, low, medium, high, 0.2 otherwise; in units of 1/ScoreDen          *)
StatedPriceScore(bucket, preferred) ==
    IF bucket = preferred THEN ScoreDen
    ELSE IF BucketPosition[bucket] - BucketPosition[preferred] \in {1, -1}
         THEN ScoreDen \div 2
         ELSE ScoreDen \div 5

(* C23: the price score of a scored item is 1.0 when the bucket of its     *)
(* price is the profile's preferred bucket, 0.5 when the two are adjacent  *)
(* in the order free, low, medium, high, and 0.2 otherwise; adjacency is   *)
(* symmetric and no bucket is adjacent to itself.                          *)
C23_PriceScore ==
    /\ \A a, b \in DOMAIN BucketPosition :
          /\ is_price_adjacent(a, b) = is_price_adjacent(b, a)
          /\ ~is_price_adjacent(a, a)
    /\ Returned =>
          \A i \in DOMAIN recommendations :
              ~recommendations[i].is_fallback =>
                  recommendations[i].recommendation_factors.price_match
                      = StatedPriceScore(
                            recommender_get_price_range(
                                Get(MaterialOf(recommendations[i]), "price", 0)),
                            Val(profile).price_preference)

(* C23's case: one result holds an item of the preferred bucket, one of a  *)
(* neighbouring bucket and one of a bucket further away                    *)
C23_Witness ==
    /\ Returned
    /\ \E h, i, j \in DOMAIN recommendations :
          /\ ~recommendations[h].is_fallback
          /\ ~recommendations[i].is_fallback
          /\ ~recommendations[j].is_fallback
          /\ recommendations[h].recommendation_factors.price_match = ScoreDen
          /\ recommendations[i].recommendation_factors.price_match = ScoreDen \div 2
          /\ recommendations[j].recommendation_factors.price_match = ScoreDen \div 5

(* Two labels of the catalog's categories that differ and share a word *)
RelatedLabels(label, other) ==
    /\ label \in AllCategories(materials)
    /\ other \in AllCategories(materials)
    /\ label # other
    /\ CategoryWords(label) \cap CategoryWords(other) # {}

(* What one label of a material adds: 1/(rank+1) plus weight/100 at its    *)
(* rank in the preferred list, else 0.3 when related to a preferred label, *)
(* else 0; in units of 1/ScoreDen                                          *)
StatedLabelTerm(label, preferred, weights) ==
    IF \E r \in DOMAIN preferred : preferred[r] = label
    THEN ScoreDen \div (CHOOSE r \in DOMAIN preferred : preferred[r] = label)
            + 3 * CounterGet(weights, label)
    ELSE IF \E r \in DOMAIN preferred : RelatedLabels(preferred[r], label)
         THEN (3 * ScoreDen) \div 10
         ELSE 0

StatedLabelSum(labels, preferred, weights) ==
    SumSeq([k \in DOMAIN labels |-> StatedLabelTerm(labels[k], preferred, weights)], 1)

StatedCategorySum(item) ==
    StatedLabelSum(extract_categories(Get(MaterialOf(item), "categories", <<>>)),
                   Val(profile).preferred_categories, Val(profile).category_weights)

StatedGradeSum(item) ==
    StatedLabelSum(extract_grades(Get(MaterialOf(item), "class_grades", <<>>)),
                   Val(profile).preferred_grades, Val(profile).grade_weights)

(* The item's material carries the first label of the preferred list *)
CarriesTop(labels, preferred) ==
    preferred # <<>> /\ preferred[1] \in Range(labels)

----------------------------------------------------------------------------
(* Properties of the explanation and of missing fields *)

Explained == op = "explained" /\ explanation # None

FallbackIds == {fallback[i].material_id : i \in DOMAIN fallback}

(* C15: a material without price or without bestseller rating counts as 0  *)
(* and raises no error: scored, its popularity is 0; unscored, it is in    *)
(* the fallback pool whenever the pool is built; explaining a result that  *)
(* contains it returns an explanation.                                     *)
C15_MissingAsZero ==
    /\ (Returned \/ Explained) =>
          \A i \in DOMAIN scored :
              ~Has(scored[i].material, "bestseller_rating")
                  => scored[i].bestseller_score = 0
    /\ ((Returned \/ Explained) /\ req.user_id # "" /\ Len(scored) < req.limit) =>
          \A i \in CandidatePool \ ScoredPool :
              ~Has(materials[i], "bestseller_rating")
                  => materials[i].material_id \in FallbackIds
    /\ Explained => ~Has(Val(explanation), "raised")

(* The user of the call has purchased or downloaded the whole catalog *)
SeenEverything == materials # <<>> /\ req.user_id # "" /\ CandidatePool = {}

(* What the same call returns when the catalog is empty *)
NoCatalogResult ==
    recommend_materials(event_data, <<>>,
                        create_user_profile(event_data, <<>>, req.user_id, now),
                        req.limit, req.diversity_factor, Draws({}), now).result

(* C16: with an empty catalog or nothing left after filtering the call     *)
(* returns the empty list, and what it returns tells "no catalog" from     *)
(* "user has seen everything": the two outcomes differ, and so do their    *)
(* explanations.                                                           *)
C16_ReasonCode ==
    /\ (Returned /\ (materials = <<>> \/ SeenEverything)) => recommendations = <<>>
    /\ (Returned /\ SeenEverything) => recommendations # NoCatalogResult
    /\ (Explained /\ SeenEverything) =>
          Val(explanation) # explain_recommendations(NoCatalogResult)

(* The number of recommendations that carry the label in the field *)
Carrying(field, label) ==
    Cardinality({i \in DOMAIN recommendations :
        label \in Range(extract_categories(recommendations[i][field]))})

IsMean(average, factor) ==
    /\ average.count = Len(recommendations)
    /\ average.sum = SumSeq([i \in DOMAIN recommendations |->
                               recommendations[i].recommendation_factors[factor]], 1)

(* C17: the explanation of a result aggregates it: the fallback count is    *)
(* the number of fallback entries, the price bucket counts and the         *)
(* freshness histogram each sum to the length of the result, a category or *)
(* grade count is the number of entries carrying the label, and each       *)
(* average is the mean of its component over all entries.                  *)
C17_PureAggregation ==
    (Explained /\ Has(Val(explanation), "summary")) =>
        /\ Get(Val(explanation), "fallback_count", 0)
              = Cardinality({i \in DOMAIN recommendations :
                                recommendations[i].is_fallback})
        /\ SumSeq(CounterValues(Val(explanation).price_distribution), 1)
              = Len(recommendations)
        /\ Val(explanation).freshness_distribution.recent
              + Val(explanation).freshness_distribution.standard
              + Val(explanation).freshness_distribution.older = Len(recommendations)
        /\ \A e \in Range(Val(explanation).categories) :
              e.v = Carrying("categories", e.k)
        /\ \A e \in Range(Val(explanation).grades) :
              e.v = Carrying("class_grades", e.k)
        /\ IsMean(Val(explanation).recommendation_factors.avg_category_match,
                  "category_match")
        /\ IsMean(Val(explanation).recommendation_factors.avg_grade_match,
                  "grade_match")
        /\ IsMean(Val(explanation).recommendation_factors.avg_price_match,
                  "price_match")
        /\ IsMean(Val(explanation).recommendation_factors.avg_freshness, "freshness")
        /\ IsMean(Val(explanation).recommendation_factors.avg_popularity,
                  "popularity")

----------------------------------------------------------------------------
(* Properties of the random blend *)

(* What the call being looked at returns, at the time it was made, when    *)
(* random.random() draws high for the materials of high                    *)
ResultWith(high) ==
    recommend_materials(event_data, materials, Val(profile), req.limit,
                        req.diversity_factor, Draws(high),
                        Val(profile).profile_generation_time).result

(* (0.35 c + 0.25 g + 0.15 p + 0.15 b) * freshness, in units of 1/FinalDen *)
CombinedScore(item) ==
    (item.category_score * 7 + item.grade_score * 5 + item.price_score * 3
        + item.bestseller_score * 3) * item.freshness_factor * DiversityDen

(* C18: a call with the same catalog, events, limit and diversity factor    *)
(* returns the same ordered result whatever random.random() draws (the     *)
(* call takes no seed and no random source), and with diversity factor 0   *)
(* the final score of every candidate is its combined score.               *)
C18_Reproducible ==
    /\ Returned => \A high \in DrawChoices : ResultWith(high) = recommendations
    /\ (Returned /\ req.diversity_factor = 0) =>
          \A i \in DOMAIN scored : scored[i].score = CombinedScore(scored[i])

----------------------------------------------------------------------------
(* Properties of the profile *)

ProfileBuilt == op = "returned" /\ profile # None

EmptyAffinities(user_profile) ==
    /\ user_profile.category_weights = <<>>
    /\ user_profile.grade_weights = <<>>
    /\ user_profile.preferred_categories = <<>>
    /\ user_profile.preferred_grades = <<>>
    /\ user_profile.price_range_weights = <<>>

(* C7 as stated: without events the affinity mappings are empty and the    *)
(* top category, the top grade and the preferred price bucket are absent.  *)
C7_NullPriceBucket ==
    (ProfileBuilt /\ ColdStart) =>
        /\ EmptyAffinities(Val(profile))
        /\ Val(profile).price_preference \notin Range(range_order)

(* C7: without events the category, grade and price mappings are empty,    *)
(* no category and no grade is preferred, and the preferred price bucket   *)
(* is the default "medium".                                                *)
C7_EmptyProfile ==
    (ProfileBuilt /\ ColdStart) =>
        /\ EmptyAffinities(Val(profile))
        /\ Val(profile).price_preference = "medium"

(* C7's case: a profile built for a user without events while other users  *)
(* have events                                                             *)
C7_Witness ==
    /\ ProfileBuilt
    /\ req.call = "get_user_profile"
    /\ ColdStart
    /\ event_data # NoEvents

(* Two price mappings hold the same buckets with the same shares v/total *)
SameShares(a, b) ==
    /\ Len(a) = Len(b)
    /\ \A i \in DOMAIN a : \E j \in DOMAIN b :
          /\ a[i].k = b[j].k
          /\ a[i].v * b[j].total = b[j].v * a[i].total

(* Two profiles hold equal category, grade and price mappings (dicts are   *)
(* equal whatever their insertion order).                                  *)
SameAffinities(a, b) ==
    /\ Range(a.category_weights) = Range(b.category_weights)
    /\ Range(a.grade_weights) = Range(b.grade_weights)
    /\ SameShares(a.price_range_weights, b.price_range_weights)

(* C8: a profile built earlier has the affinity mappings of the profile    *)
(* built now from the same events and catalog.                             *)
C8_ProfileIdempotent ==
    ProfileBuilt =>
        SameAffinities(Val(profile),
                       create_user_profile(event_data, materials, req.user_id, now))

----------------------------------------------------------------------------
(* Properties of calculate_time_decay *)

(* Whole days from the event to the reference time of the call *)
Elapsed ==
    OrElse(Val(decay_args).reference_time, now)
        - parse_datetime(Val(decay_args).event_time, now)

(* The first elapsed time whose power underflows to 0.0 *)
UnderflowDays == DoubleMinExponent * half_life

C13_DefaultAge ==
    (decay # None /\ Val(decay_args).event_time = BadTime) =>
        /\ ~Val(decay).zero
        /\ Val(decay).num = -default_age_days
        /\ Val(decay).den = half_life

----------------------------------------------------------------------------
(* Properties of the price bucket functions *)

(* The bucket of the stated boundaries: 0, up to 2.00, up to 7.00, above *)
StatedBucket(p) ==
    IF p = 0 THEN "free"
    ELSE IF p <= low_max_cents THEN "low"
    ELSE IF p <= medium_max_cents THEN "medium"
    ELSE "high"

(* C10: every copy of the price bucket function maps every price to the    *)
(* bucket of the stated boundaries, so all copies agree.                   *)
C10_PriceBuckets ==
    (ranges # None) =>
        /\ Val(ranges).recommender = StatedBucket(price)
        /\ Val(ranges).service = StatedBucket(price)
        /\ Val(ranges).analyzer = StatedBucket(price)
        /\ Val(ranges).v1 = StatedBucket(price)
        /\ Val(ranges).v2 = StatedBucket(price)

----------------------------------------------------------------------------
(* Properties of the ranking of the catalog A, B, C *)

(* The call of the example: u1, whose only event is the purchase of A,      *)
(* asks for two recommendations out of A, B, C                             *)
RankCall ==
    /\ Returned
    /\ materials \in RankCatalogs
    /\ event_data = EventsOnePurchase
    /\ req.user_id = "u1"
    /\ req.limit = 2

ResultOrder == [i \in DOMAIN recommendations |-> recommendations[i].material_id]

----------------------------------------------------------------------------
(* Properties of the shared state under concurrent callers *)

(* C12: the catalog, the event data and the feature index are each built   *)
(* at most once, whatever the interleaving of the callers.                 *)
C12_BuiltOnce ==
    /\ repository.materials_loaded <= 1
    /\ repository.events_loaded <= 1
    /\ personalization.built <= 1

----------------------------------------------------------------------------
(* Properties of rule_based_v1 build_profiles *)

WithUserId(records) ==
    Filter(records, [i \in DOMAIN records |-> Has(records[i], "user_id")])

(* The loaded lists without the records that have no user_id *)
WellFormed ==
    [purchases |-> WithUserId(data_loader.purchases),
     favorites |-> WithUserId(data_loader.favorites),
     interactions |-> WithUserId(data_loader.interactions),
     searches |-> WithUserId(data_loader.searches)]

Malformed ==
    (Len(data_loader.purchases) - Len(WellFormed.purchases))
    + (Len(data_loader.favorites) - Len(WellFormed.favorites))
    + (Len(data_loader.interactions) - Len(WellFormed.interactions))
    + (Len(data_loader.searches) - Len(WellFormed.searches))

(* C14: build_profiles returns, every record without user_id is skipped    *)
(* with one warning, and the profiles are those built without the record.  *)
C14_SkippedWithWarning ==
    (built # "") =>
        /\ built = "returned"
        /\ Len(printed) = Malformed
        /\ user_profiles = build_profiles(WellFormed).user_profiles

----------------------------------------------------------------------------
(* Properties of the top labels of a profile *)

(* The events of the user of the call that name a material *)
MaterialEvents ==
    UNION {{e \in Range(get_user_events(event_data, req.user_id)[t]) :
               Get(e, "material_id", "") # ""} :
           t \in Range(EventFiles) \ {"searches"}}

(* The labels the event contributes to, in "categories" or "class_grades" *)
EventLabels(e, field) ==
    Range(extract_categories(
        Get(MaterialOrEvent(MaterialById(materials, e.material_id), e), field, <<>>)))

(* The searches of the user of the call whose query holds the label *)
LabelSearches(label) ==
    {e \in Range(get_user_events(event_data, req.user_id)["searches"]) :
        Contains(lower(Chars(Get(e, "search_keyword", ""))), lower(Chars(label)))}

(* The days of the events that contributed to the label *)
ContributionDays(field, label) ==
    {parse_datetime(get_event_time(e, Val(profile).profile_generation_time),
                    Val(profile).profile_generation_time) :
        e \in {m \in MaterialEvents : label \in EventLabels(m, field)}}
    \cup
    {parse_datetime(Get(e, "last_search_date", EmptyStr),
                    Val(profile).profile_generation_time) :
        e \in LabelSearches(label)}

(* No event contributed to other after the last one that contributed to top *)
AsRecent(field, top, other) ==
    \A d \in ContributionDays(field, other) :
        \E t \in ContributionDays(field, top) : t >= d

(* preferred[1] is a label of greatest weight and, among those, one with   *)
(* the most recent contributing event                                      *)
TopLabel(preferred, weights, field) ==
    (weights # <<>>) =>
        /\ preferred # <<>>
        /\ \A i \in DOMAIN weights :
              /\ CounterGet(weights, preferred[1]) >= weights[i].v
              /\ (CounterGet(weights, preferred[1]) = weights[i].v)
                    => AsRecent(field, preferred[1], weights[i].k)

(* C19: the top category and the top grade of a profile are labels of      *)
(* greatest affinity, a tie going to the label whose contributing event    *)
(* is the most recent.                                                     *)
C19_TopLabel ==
    ProfileBuilt =>
        /\ TopLabel(Val(profile).preferred_categories,
                    Val(profile).category_weights, "categories")
        /\ TopLabel(Val(profile).preferred_grades,
                    Val(profile).grade_weights, "class_grades")

----------------------------------------------------------------------------
(* Properties of the contributions to the category affinities *)

(* The reference time of the profile that was built *)
ProfileReference ==
    get_reference_time(get_user_events(event_data, req.user_id),
                       Val(profile).profile_generation_time)

(* weight * time_decay(timestamp, reference), in units of 1/AffDen *)
StatedContribution(weight, time_str) ==
    weight * 2
      * DecayFixed(calculate_time_decay(time_str, Some(ProfileReference),
                                        Val(profile).profile_generation_time))

(* What the events of one type add to the label: a search whose keyword    *)
(* holds the label adds weight * decay * frequency once, an event that     *)
(* names a material carrying the label adds weight * decay.                *)
StatedOfType(event_type, events, label) ==
    SumSeq([i \in DOMAIN events |->
              IF event_type = "searches"
              THEN IF events[i] \in LabelSearches(label)
                   THEN StatedContribution(
                            get_event_weight(event_type, FALSE),
                            Get(events[i], "last_search_date", EmptyStr))
                          * Get(events[i], "search_frequency", 1)
                   ELSE 0
              ELSE IF events[i] \in MaterialEvents
                      /\ label \in EventLabels(events[i], "categories")
                   THEN StatedContribution(
                            get_event_weight(event_type, FALSE),
                            get_event_time(events[i],
                                           Val(profile).profile_generation_time))
                   ELSE 0], 1)

StatedAffinity(label) ==
    SumSeq([p \in DOMAIN event_priority_order |->
              StatedOfType(event_priority_order[p],
                           get_user_events(event_data, req.user_id)
                               [event_priority_order[p]],
                           label)], 1)

(* The category labels of the catalog *)
CatalogCategories ==
    UNION {Range(extract_categories(Get(materials[i], "categories", <<>>))) :
              i \in DOMAIN materials}

(* C20: the affinity of every category label of the catalog is the sum of  *)
(* weight * decay * frequency over the searches whose lowercased keyword   *)
(* holds the label, each search counted once for the label, and of         *)
(* weight * decay over the events naming a material that carries it, the   *)
(* decay taken against the reference time of the profile.                  *)
C20_Contributions ==
    ProfileBuilt =>
        \A label \in CatalogCategories :
            CounterGet(Val(profile).category_weights, label) = StatedAffinity(label)

----------------------------------------------------------------------------
(* Properties of the content-based similarities *)

(* |a n b| / |a u b| in 1/JaccardDen; two empty sets overlap fully *)
StatedJaccard(a, b) ==
    IF a \cup b = {} THEN JaccardDen
    ELSE (Cardinality(a \cap b) * JaccardDen) \div Cardinality(a \cup b)

(* Jaccard overlap of two multi-valued fields, exact match otherwise *)
StatedFieldTerm(value1, value2) ==
    IF IsList(value1) /\ IsList(value2)
    THEN StatedJaccard(Range(value1.list), Range(value2.list))
    ELSE IF value1 = value2 THEN JaccardDen ELSE 0

(* The categorical fields of a material *)
FieldsOf(material) ==
    {f \in Range(categorical_features) : InFeatureDict(material, f)}

RECURSIVE StatedFieldSum(_, _, _)
StatedFieldSum(material1, material2, fields) ==
    IF fields = {} THEN 0
    ELSE StatedFieldTerm(material1[MaterialField(CHOOSE f \in fields : TRUE)],
                         material2[MaterialField(CHOOSE f \in fields : TRUE)])
           + StatedFieldSum(material1, material2,
                            fields \ {CHOOSE f \in fields : TRUE})

(* The average over the fields both materials have, in 1/CatDen *)
StatedAverage(material1, material2, fields) ==
    IF fields = {} THEN 0
    ELSE StatedFieldSum(material1, material2, fields)
            * (FeatureLcm \div Cardinality(fields))

StatedCategorical(material_id1, material_id2) ==
    IF ~KnownMaterial(cb_materials, material_id1)
          \/ ~KnownMaterial(cb_materials, material_id2)
    THEN 0
    ELSE StatedAverage(Val(MaterialById(cb_materials, material_id1)),
                       Val(MaterialById(cb_materials, material_id2)),
                       FieldsOf(Val(MaterialById(cb_materials, material_id1)))
                          \cap FieldsOf(Val(MaterialById(cb_materials, material_id2))))

(* A known material with at least one categorical field, compared with    *)
(* itself                                                                  *)
SelfCompared ==
    /\ compared # None
    /\ Val(compared).material_id1 = Val(compared).material_id2
    /\ KnownMaterial(cb_materials, Val(compared).material_id1)
    /\ FieldsOf(Val(MaterialById(cb_materials, Val(compared).material_id1))) # {}

(* C26: categorical_similarity(a, b) is the average, over the categorical  *)
(* fields both materials have, of the Jaccard overlap of multi-valued      *)
(* fields and the exact-match indicator of single-valued ones; it is 0     *)
(* without a shared field or with an unknown id, lies in [0,1], is         *)
(* symmetric, and is 1 for a material with a categorical field and itself. *)
C26_CategoricalSimilarity ==
    (compared # None) =>
        /\ Val(compared).categorical
              = StatedCategorical(Val(compared).material_id1,
                                  Val(compared).material_id2)
        /\ Val(compared).categorical \in 0..CatDen
        /\ Val(compared).categorical
              = get_categorical_similarity(cb_materials, Val(compared).material_id2,
                                           Val(compared).material_id1)
        /\ SelfCompared => Val(compared).categorical = CatDen

----------------------------------------------------------------------------
(* Properties of the scoring by liked materials *)

(* The liked materials of the catalog whose combined similarity with the   *)
(* material strictly exceeds 0.5                                           *)
SignificantLiked(material_id) ==
    {l \in Range(liked_material_ids) :
        /\ KnownMaterial(cb_materials, l)
        /\ 2 * get_combined_similarity(cb_materials, tfidf, material_id, l)
              > CombinedDen}

RECURSIVE SimilaritySum(_, _)
SimilaritySum(material_id, others) ==
    IF others = {} THEN 0
    ELSE get_combined_similarity(cb_materials, tfidf, material_id,
                                 CHOOSE l \in others : TRUE)
           + SimilaritySum(material_id, others \ {CHOOSE l \in others : TRUE})

(* The arithmetic mean over SignificantLiked, in 1/MeanDen; 0 when empty *)
StatedLikedScore(material_id) ==
    IF SignificantLiked(material_id) = {} THEN 0
    ELSE (SimilaritySum(material_id, SignificantLiked(material_id))
             * (MeanDen \div CombinedDen))
            \div Cardinality(SignificantLiked(material_id))

Scores == Val(material_scores)

(* C25: the liked-material score of a candidate is the arithmetic mean of  *)
(* its combined similarity over exactly the liked materials whose          *)
(* similarity strictly exceeds 0.5; it is 0 when no similarity exceeds 0.5 *)
(* and no material has one when the user has no liked material; a liked    *)
(* material receives no such score.                                        *)
C25_LikedMaterialScore ==
    (material_scores # None) =>
        /\ \A material_id \in DOMAIN Scores :
              /\ Scores[material_id].liked_material_score
                    = StatedLikedScore(material_id)
              /\ Scores[material_id].total_score
                    = Scores[material_id].liked_material_score
        /\ DOMAIN Scores \cap Range(liked_material_ids) = {}
        /\ (liked_material_ids = <<>>) => DOMAIN Scores = {}
        /\ (liked_material_ids # <<>>) =>
              DOMAIN Scores = ContentIds(cb_materials) \ Range(liked_material_ids)

(* C25's case: a candidate with two liked materials above the threshold,   *)
(* of different similarity, and a liked material of the catalog at exactly *)
(* 0.5 that is left out of the mean                                        *)
C25_Witness ==
    /\ material_scores # None
    /\ \E material_id \in DOMAIN Scores :
          /\ Cardinality(SignificantLiked(material_id)) = 2
          /\ \E l, k \in SignificantLiked(material_id) :
                get_combined_similarity(cb_materials, tfidf, material_id, l)
                   < get_combined_similarity(cb_materials, tfidf, material_id, k)
          /\ \E l \in Range(liked_material_ids) :
                /\ KnownMaterial(cb_materials, l)
                /\ 2 * get_combined_similarity(cb_materials, tfidf, material_id, l)
                      = CombinedDen
          /\ Scores[material_id].liked_material_score > 0

----------------------------------------------------------------------------
(* Properties of the recent-activity pointers of rule_based_v1 *)

(* The records of one list that belong to the user *)
RecordsOf(kind, user_id) ==
    {r \in Range(WithUserId(data_loader[kind])) : r.user_id = user_id}

AllRecordsOf(user_id) ==
    RecordsOf("purchases", user_id) \cup RecordsOf("favorites", user_id)
        \cup RecordsOf("interactions", user_id) \cup RecordsOf("searches", user_id)

(* The records of the latest date among records *)
LatestOf(records) == {r \in records : \A other \in records : r.date >= other.date}

(* The pointer names a most recent record of the kind, None without one *)
PointsToLatest(pointer, records, field) ==
    IF records = {} THEN pointer = None
    ELSE \E r \in LatestOf(records) : pointer = Some(r[field])

(* C27: after build_profiles, last_purchased_material is the material of   *)
(* the user's latest purchase and last_search_query the query of the       *)
(* user's latest search, whatever the dates of the user's other events,    *)
(* and last_active_date is the latest date over all the user's events.     *)
C27_RecentPointers ==
    (built = "returned") =>
        \A user_id \in DOMAIN user_profiles :
            /\ PointsToLatest(
                   user_profiles[user_id].recent_activity.last_purchased_material,
                   RecordsOf("purchases", user_id), "material_id")
            /\ PointsToLatest(
                   user_profiles[user_id].recent_activity.last_search_query,
                   RecordsOf("searches", user_id), "query")
            /\ PointsToLatest(
                   user_profiles[user_id].recent_activity.last_active_date,
                   AllRecordsOf(user_id), "date")

----------------------------------------------------------------------------
(* rule_based_v1 RecommendationEngine.  pool is self.material_pool, the    *)
(* values of data_loader.materials; prices are in cents.                   *)

(* Python's truth of an optional string: neither None nor "" *)
Truthy(option) == ~IsNone(option) /\ Val(option) # ""

(* The dictionary a rule appends for a material *)
Recommended(material, rule) ==
    [material_id |-> material.material_id, title |-> material.title,
     category |-> material.category, class_grade |-> material.class_grade,
     price |-> material.price, bestseller_rating |-> material.bestseller_rating,
     is_bundle |-> material.is_bundle, rule |-> rule]

RecommendAll(mats, rule) == [i \in DOMAIN mats |-> Recommended(mats[i], rule)]

(* mats.sort(key=lambda x: float(x["bestseller_rating"]), reverse=True) *)
ByBestseller(mats) ==
    SortDesc(mats, [i \in DOMAIN mats |-> mats[i].bestseller_rating])

(* [r["material_id"] for r in records], as a set *)
IdsOf(records) == {records[i].material_id : i \in DOMAIN records}

Distance(a, b) == IF a >= b THEN a - b ELSE b - a

price_window == 200    \* "abs(current_price - last_price) <= 2", in cents

(* Rule 1 of _apply_behavior_based_rules: the materials of the grade and   *)
(* category of the last purchased one, at a similar price                  *)
SimilarToPurchase(pool, last_material) ==
    Filter(pool, [i \in DOMAIN pool |->
        /\ pool[i].class_grade = last_material.class_grade
        /\ pool[i].category = last_material.category
        /\ pool[i].material_id # last_material.material_id
        /\ Distance(pool[i].price, last_material.price) <= price_window])

v1_recent_acquisition(pool, p, limit) ==
    IF /\ Truthy(p.recent_activity.last_purchased_material)
       /\ ~IsNone(MaterialById(pool, Val(p.recent_activity.last_purchased_material)))
    THEN RecommendAll(
            Take(ByBestseller(SimilarToPurchase(pool,
                    Val(MaterialById(pool,
                        Val(p.recent_activity.last_purchased_material))))),
                 limit),
            "recent_acquisition")
    ELSE <<>>

MaterialsOf(pool, records) ==
    [i \in DOMAIN records |-> Val(MaterialById(pool, records[i].material_id))]

(* [materials.get(fav_id) for fav_id in favorite_ids if fav_id in materials] *)
FavoriteMaterials(pool, favorites) ==
    MaterialsOf(pool, Filter(favorites, [i \in DOMAIN favorites |->
        ~IsNone(MaterialById(pool, favorites[i].material_id))]))

FieldOf(mats, field) == [i \in DOMAIN mats |-> mats[i][field]]

SimilarToFavorites(pool, category, grade, favorite_ids) ==
    IF Truthy(category) /\ Truthy(grade)
    THEN Filter(pool, [i \in DOMAIN pool |->
            /\ pool[i].category = Val(category)
            /\ pool[i].class_grade = Val(grade)
            /\ pool[i].material_id \notin favorite_ids])
    ELSE <<>>

(* Rule 2 of _apply_behavior_based_rules: what it appends, room being      *)
(* limit - len(recommendations)                                            *)
v1_favorites_based(pool, favorites, room) ==
    RecommendAll(
        Take(ByBestseller(
                SimilarToFavorites(pool,
                    MostCommonOrNone(Counter(FieldOf(FavoriteMaterials(pool, favorites),
                                                     "category"))),
                    MostCommonOrNone(Counter(FieldOf(FavoriteMaterials(pool, favorites),
                                                     "class_grade"))),
                    IdsOf(favorites))),
             room),
        "favorites_based")

(* "if len(recommendations) < limit and profile["behavior"]["favorites"]": *)
(* the second rule appends to the list of the first, nothing is compared   *)
AfterRecentAcquisition(pool, p, limit, recs) ==
    IF Len(recs) < limit /\ p.behavior.favorites # <<>>
    THEN recs
         \o v1_favorites_based(pool, p.behavior.favorites,
                               limit - Len(recs))
    ELSE recs

(* _apply_behavior_based_rules *)
v1_apply_behavior_based_rules(pool, p, limit) ==
    AfterRecentAcquisition(pool, p, limit, v1_recent_acquisition(pool, p, limit))

(* Rule 1 of _apply_preference_based_rules *)
v1_category_grade_preference(pool, p, limit) ==
    IF Truthy(p.preferred_category) /\ Truthy(p.preferred_grade)
    THEN RecommendAll(
            Take(ByBestseller(Filter(pool, [i \in DOMAIN pool |->
                    /\ pool[i].category = Val(p.preferred_category)
                    /\ pool[i].class_grade = Val(p.preferred_grade)
                    /\ pool[i].material_id \notin IdsOf(p.behavior.purchases)])),
                 limit),
            "category_grade_preference")
    ELSE <<>>

(* min_price <= price <= max_price for the bounds of the range; a range    *)
(* that is none of the four keeps the bounds 0, 0                          *)
InPriceBounds(cents, price_range) ==
    CASE price_range = "low" -> 1 <= cents /\ cents <= 300
      [] price_range = "medium" -> 301 <= cents /\ cents <= 700
      [] price_range = "high" -> 701 <= cents
      [] OTHER -> cents = 0

(* 2 for a material of the preferred grade, 1 for another *)
GradePriority(material, preferred_grade) ==
    IF Truthy(preferred_grade) /\ material.class_grade = Val(preferred_grade)
    THEN 2 ELSE 1

(* sort(key=lambda x: (x[1], float(x[0]["bestseller_rating"])), reverse=True): *)
(* by priority, then by rating, equal keys in the order of the pool        *)
ByPriorityAndRating(mats, preferred_grade) ==
    SortDesc(ByBestseller(mats),
             [i \in DOMAIN mats |-> GradePriority(ByBestseller(mats)[i], preferred_grade)])

RECURSIVE AppendNew(_, _, _, _)
(* for material in mats[i..]: append it unless its id is already in the    *)
(* list                                                                    *)
AppendNew(recs, mats, i, rule) ==
    IF i > Len(mats) THEN recs
    ELSE AppendNew(IF mats[i].material_id \notin IdsOf(recs)
                   THEN Append(recs, Recommended(mats[i], rule))
                   ELSE recs,
                   mats, i + 1, rule)

(* Rule 2 of _apply_preference_based_rules *)
AfterCategoryGrade(pool, p, limit, recs) ==
    IF Len(recs) < limit /\ Truthy(p.preferred_price_range)
    THEN AppendNew(recs,
                   Take(ByPriorityAndRating(
                            Filter(pool, [i \in DOMAIN pool |->
                                InPriceBounds(pool[i].price,
                                              Val(p.preferred_price_range))]),
                            p.preferred_grade),
                        limit - Len(recs)),
                   1, "price_preference")
    ELSE recs

(* _apply_preference_based_rules *)
v1_apply_preference_based_rules(pool, p, limit) ==
    AfterCategoryGrade(pool, p, limit, v1_category_grade_preference(pool, p, limit))

(* the first step of _get_fallback_recommendations; p is None or a profile *)
v1_popular_by_grade(pool, p, limit) ==
    IF ~IsNone(p) /\ Truthy(Val(p).preferred_grade)
    THEN RecommendAll(
            Take(ByBestseller(Filter(pool, [i \in DOMAIN pool |->
                    pool[i].class_grade = Val(Val(p).preferred_grade)])),
                 limit),
            "popular_by_grade")
    ELSE <<>>

(* its second step *)
AfterPopularByGrade(pool, limit, recs) ==
    IF Len(recs) < limit
    THEN AppendNew(recs,
                   Take(ByBestseller(pool), limit - Len(recs)),
                   1, "overall_popular")
    ELSE recs

(* _get_fallback_recommendations(profile, limit) *)
v1_get_fallback_recommendations(pool, p, limit) ==
    AfterPopularByGrade(pool, limit, v1_popular_by_grade(pool, p, limit))

(* extend without the test on the ids *)
extend_all(recs, more) == recs \o more

(* recommendations.extend([rec for rec in more if rec["material_id"]       *)
(*     not in [r["material_id"] for r in recommendations]])                *)
ExtendNew(recs, more) ==
    recs
    \o Filter(more, [i \in DOMAIN more |->
                        more[i].material_id \notin IdsOf(recs)])

AfterBehavior(pool, p, limit, recs) ==
    IF Len(recs) < limit
    THEN ExtendNew(recs,
                   v1_apply_preference_based_rules(pool, p,
                                                   limit - Len(recs)))
    ELSE recs

AfterPreference(pool, p, limit, recs) ==
    IF Len(recs) < limit
    THEN ExtendNew(recs,
                   v1_get_fallback_recommendations(pool, Some(p),
                                                   limit - Len(recs)))
    ELSE recs

(* RecommendationEngine.get_recommendations(user_id, limit) *)
v1_get_recommendations(pool, profiles, user_id, limit) ==
    IF user_id \notin DOMAIN profiles
    THEN v1_get_fallback_recommendations(pool, None, limit)
    ELSE Take(AfterPreference(pool, profiles[user_id], limit,
                  AfterBehavior(pool, profiles[user_id], limit,
                      v1_apply_behavior_based_rules(pool, profiles[user_id], limit))),
              limit)

----------------------------------------------------------------------------
(* rule_based_v1: the engine over the built profiles *)

MaxRuleLimit == 3      \* the engines are asked for 1..MaxRuleLimit items

RuleUserIds == {"u1", "u2", "u3", "u9"}

Answered(value) == Some([raised |-> "", value |-> value])
Raising(exception) == Some([raised |-> exception, value |-> <<>>])

(* RecommendationEngine(data_loader, user_profiles)                        *)
(*     .get_recommendations(user_id, limit), once build_profiles returned  *)
V1GetRecommendations(user_id, limit) ==
    /\ built = "returned"
    /\ rule_call' = [call |-> "get_recommendations", user_id |-> user_id,
                     limit |-> limit]
    /\ rule_response' = Answered(v1_get_recommendations(data_loader.materials,
                                                         user_profiles, user_id, limit))
    /\ UNCHANGED <<service_module, recommendation_engine, returned_initialize>>
    /\ UNCHANGED <<service_vars, pure_vars, lazy_vars, v1_vars, content_vars>>

NextV1 ==
    \/ BuildProfiles
    \/ \E user_id \in RuleUserIds, limit \in 1..MaxRuleLimit :
          V1GetRecommendations(user_id, limit)

SpecV1 == InitV1 /\ [][NextV1]_vars

----------------------------------------------------------------------------
(* Properties of the rule_based_v1 engine *)

(* C29: no list an engine returns holds the same material id twice,        *)
(* whatever the user, the catalog and the limit; here for the list of      *)
(* rule_based_v1 get_recommendations.                                      *)
C29_NoDuplicateIds ==
    (~IsNone(rule_response) /\ rule_call.call = "get_recommendations")
        => Cardinality(IdsOf(Val(rule_response).value))
              = Len(Val(rule_response).value)

----------------------------------------------------------------------------
(* rule_based_v2 UserProfileBuilder.  Weights are in thousandths: the       *)
(* sums of the floats are taken exactly.                                   *)

(* self.signal_weights *)
signal_weight(signal) ==
    CASE signal = "purchase" -> 1000
      [] signal = "view_material" -> 700
      [] signal = "view_preview" -> 500
      [] signal = "search" -> 400
      [] signal = "add_to_cart" -> 300
      [] signal = "download" -> 200
      [] signal = "favorite" -> 150
      [] OTHER -> 100

(* weight * signal_weights["category_multiplier"], the multiplier 1.2 *)
category_weight(weight) == (weight * 12) \div 10

NewV2Profile(user_id) ==
    [user_id |-> user_id,
     behavior |-> [purchases |-> <<>>, favorites |-> <<>>,
                   interactions |-> <<>>, searches |-> <<>>,
                   viewed_materials |-> {}, previewed_materials |-> {}],
     preferences |-> [categories |-> <<>>, grade_levels |-> <<>>,
                      price_ranges |-> <<>>, is_bundle |-> <<>>],
     context |-> [device |-> None],
     recent_activity |-> [last_active_date |-> None,
                          last_purchased_material |-> None,
                          last_search_query |-> None,
                          last_viewed_material |-> None,
                          last_viewed_date |-> None,
                          last_previewed_material |-> None,
                          last_previewed_date |-> None],
     subject_affinity_score |-> <<>>,
     grade_affinity_score |-> <<>>]

AllRecords(loader) ==
    loader.purchases \o loader.favorites \o loader.interactions \o loader.searches

(* _initialize_user_profiles: record["user_id"] of a record without the    *)
(* key raises KeyError before any profile is made                          *)
v2_initialize_user_profiles(loader) ==
    IF \E i \in DOMAIN AllRecords(loader) : ~Has(AllRecords(loader)[i], "user_id")
    THEN [raised |-> "KeyError", printed |-> <<>>, user_profiles |-> NoProfiles]
    ELSE [raised |-> "", printed |-> <<>>,
          user_profiles |->
              [user_id \in {AllRecords(loader)[i].user_id :
                               i \in DOMAIN AllRecords(loader)}
                  |-> NewV2Profile(user_id)]]

(* The counters of a profile after a record of category and grade, at a    *)
(* price, of the given weight                                              *)
V2Count(p, record, record_price, weight) ==
    [p EXCEPT
        !.preferences.categories =
            CounterAdd(@, record.material_category, category_weight(weight)),
        !.preferences.grade_levels = CounterAdd(@, record.class_grade, weight),
        !.subject_affinity_score =
            CounterAdd(@, record.material_category, category_weight(weight)),
        !.grade_affinity_score = CounterAdd(@, record.class_grade, weight),
        !.preferences.price_ranges =
            CounterAdd(@, v2_get_price_range(record_price), weight),
        !.preferences.is_bundle = CounterAdd(@, BundleKey(record), weight)]

(* context and last_active_date after a record *)
V2Touch(p, record) ==
    [p EXCEPT
        !.context.device = Some(record.user_device),
        !.recent_activity.last_active_date =
            IF IsLater(record.date, @) THEN Some(record.date) ELSE @]

(* the body of the loop of _process_purchases *)
v2_process_purchase(p, purchase) ==
    [V2Touch(V2Count(p, purchase, purchase.purchase_price,
                     signal_weight("purchase")), purchase)
     EXCEPT
        !.behavior.purchases = Append(@, purchase),
        !.recent_activity.last_purchased_material =
            IF IsLater(purchase.date, p.recent_activity.last_active_date)
            THEN Some(purchase.material_id) ELSE @]

(* the body of the loop of _process_favorites *)
v2_process_favorite(p, favorite) ==
    [V2Touch(V2Count(p, favorite, favorite.material_price,
                     signal_weight("favorite")), favorite)
     EXCEPT !.behavior.favorites = Append(@, favorite)]

(* the weight of an interaction: its type, or click for another type *)
v2_interaction_weight(type) ==
    IF type \in {"view_material", "view_preview", "add_to_cart", "download"}
    THEN signal_weight(type) ELSE signal_weight("click")

(* "last_viewed_material is None or interaction_date > last_viewed_date" *)
IsLaterView(interaction, last_material, last_date) ==
    IsNone(last_material) \/ IsLater(interaction.date, last_date)

(* the view_material and view_preview branches of _process_interactions *)
TrackViews(p, interaction) ==
    IF interaction.type = "view_material"
    THEN [p EXCEPT
            !.behavior.viewed_materials = @ \cup {interaction.material_id},
            !.recent_activity.last_viewed_material =
                IF IsLaterView(interaction, @, p.recent_activity.last_viewed_date)
                THEN Some(interaction.material_id) ELSE @,
            !.recent_activity.last_viewed_date =
                IF IsLaterView(interaction, p.recent_activity.last_viewed_material, @)
                THEN Some(interaction.date) ELSE @]
    ELSE IF interaction.type = "view_preview"
    THEN [p EXCEPT
            !.behavior.previewed_materials = @ \cup {interaction.material_id},
            !.recent_activity.last_previewed_material =
                IF IsLaterView(interaction, @, p.recent_activity.last_previewed_date)
                THEN Some(interaction.material_id) ELSE @,
            !.recent_activity.last_previewed_date =
                IF IsLaterView(interaction, p.recent_activity.last_previewed_material, @)
                THEN Some(interaction.date) ELSE @]
    ELSE p

(* the body of the loop of _process_interactions *)
v2_process_interaction(p, interaction) ==
    [V2Touch(V2Count(TrackViews(p, interaction), interaction,
                     interaction.material_price,
                     v2_interaction_weight(interaction.type)), interaction)
     EXCEPT !.behavior.interactions = Append(@, interaction)]

(* the body of the loop of _process_searches: a search counts for its      *)
(* category and its grade when it has them                                 *)
v2_process_search(p, search) ==
    [V2Touch(p, search) EXCEPT
        !.behavior.searches = Append(@, search),
        !.preferences.categories =
            IF Has(search, "material_category")
            THEN CounterAdd(@, search.material_category,
                            category_weight(signal_weight("search")))
            ELSE @,
        !.subject_affinity_score =
            IF Has(search, "material_category")
            THEN CounterAdd(@, search.material_category,
                            category_weight(signal_weight("search")))
            ELSE @,
        !.preferences.grade_levels =
            IF Has(search, "class_grade")
            THEN CounterAdd(@, search.class_grade, signal_weight("search"))
            ELSE @,
        !.grade_affinity_score =
            IF Has(search, "class_grade")
            THEN CounterAdd(@, search.class_grade, signal_weight("search"))
            ELSE @,
        !.recent_activity.last_search_query =
            IF IsLater(search.date, p.recent_activity.last_active_date)
            THEN Some(search.query) ELSE @]

V2ProcessRecord(kind, p, record) ==
    CASE kind = "purchases" -> v2_process_purchase(p, record)
      [] kind = "favorites" -> v2_process_favorite(p, record)
      [] kind = "interactions" -> v2_process_interaction(p, record)
      [] kind = "searches" -> v2_process_search(p, record)

RECURSIVE V2ProcessRecords(_, _, _, _)
(* _process_purchases, _process_favorites, _process_interactions,          *)
(* _process_searches                                                       *)
V2ProcessRecords(b, kind, records, i) ==
    IF b.raised # "" \/ i > Len(records) THEN b
    ELSE V2ProcessRecords(
            [b EXCEPT !.user_profiles[records[i].user_id] =
                          V2ProcessRecord(kind, @, records[i])],
            kind, records, i + 1)

(* sorted(scores.items(), key=lambda x: x[1], reverse=True)[0][0] when the *)
(* counter beside it is not empty, None otherwise                          *)
TopOrNone(counter, scores) ==
    IF counter = <<>> THEN None ELSE MostCommonOrNone(scores)

V2InferredProfile(p) ==
    [preferred_category |->
         TopOrNone(p.preferences.categories, p.subject_affinity_score),
     preferred_grade |->
         TopOrNone(p.preferences.grade_levels, p.grade_affinity_score),
     preferred_price_range |-> MostCommonOrNone(p.preferences.price_ranges),
     preferred_bundle_status |-> MostCommonOrNone(p.preferences.is_bundle),
     ranked_categories |->
         SortDesc(p.subject_affinity_score, CounterValues(p.subject_affinity_score)),
     ranked_grades |->
         SortDesc(p.grade_affinity_score, CounterValues(p.grade_affinity_score))] @@ p

(* _infer_preferences *)
v2_infer_preferences(b) ==
    IF b.raised # "" THEN b
    ELSE [b EXCEPT !.user_profiles =
                     [user_id \in DOMAIN b.user_profiles |->
                        V2InferredProfile(b.user_profiles[user_id])]]

(* rule_based_v2 UserProfileBuilder.build_profiles() *)
v2_build_profiles(loader) ==
    v2_infer_preferences(
        V2ProcessRecords(
            V2ProcessRecords(
                V2ProcessRecords(
                    V2ProcessRecords(v2_initialize_user_profiles(loader),
                                     "purchases", loader.purchases, 1),
                    "favorites", loader.favorites, 1),
                "interactions", loader.interactions, 1),
            "searches", loader.searches, 1))

----------------------------------------------------------------------------
(* rule_based_v2 RecommendationEngine.  Scores are in tenths.              *)

(* self.rule_priorities.get(rule, 99) *)
rule_priorities(rule) ==
    CASE rule = "view_based" -> 1
      [] rule = "preview_based" -> 2
      [] rule = "recent_acquisition" -> 3
      [] rule = "search_based" -> 4
      [] rule = "cart_based" -> 5
      [] rule = "favorites_based" -> 6
      [] rule = "category_grade_preference" -> 7
      [] rule = "price_preference" -> 8
      [] rule = "popular_by_grade" -> 9
      [] rule = "overall_popular" -> 10
      [] OTHER -> 99

(* the "score" each rule gives to what it appends *)
rule_score(rule) ==
    CASE rule = "view_based" -> 50
      [] rule = "preview_based" -> 45
      [] rule = "recent_acquisition" -> 40
      [] rule = "search_based" -> 35
      [] rule = "cart_based" -> 30
      [] rule = "favorites_based" -> 25
      [] rule = "category_grade_preference" -> 20
      [] rule = "price_preference" -> 15
      [] rule = "popular_by_grade" -> 10
      [] rule = "overall_popular" -> 5

(* The dictionaries of rule_based_v2: those of rule_based_v1 and a score *)
Scored(recs) ==
    [i \in DOMAIN recs |-> [score |-> rule_score(recs[i].rule)] @@ recs[i]]

(* The materials of the category and grade of a reference material, other  *)
(* than it, that the user did not purchase                                 *)
SimilarUnpurchased(pool, p, reference) ==
    Filter(pool, [i \in DOMAIN pool |->
        /\ pool[i].category = reference.category
        /\ pool[i].class_grade = reference.class_grade
        /\ pool[i].material_id # reference.material_id
        /\ pool[i].material_id \notin IdsOf(p.behavior.purchases)])

(* The list a rule makes from a reference material id, when the id is set  *)
(* and in the catalog                                                      *)
SimilarTo(pool, p, limit, material_id, rule) ==
    IF Truthy(material_id) /\ ~IsNone(MaterialById(pool, Val(material_id)))
    THEN Scored(RecommendAll(
            Take(ByBestseller(SimilarUnpurchased(pool, p,
                    Val(MaterialById(pool, Val(material_id))))), limit),
            rule))
    ELSE <<>>

(* _apply_view_based_rules *)
v2_apply_view_based_rules(pool, p, limit) ==
    IF p.behavior.viewed_materials # {}
    THEN SimilarTo(pool, p, limit, p.recent_activity.last_viewed_material,
                   "view_based")
    ELSE <<>>

(* _apply_preview_based_rules *)
v2_apply_preview_based_rules(pool, p, limit) ==
    IF p.behavior.previewed_materials # {}
    THEN SimilarTo(pool, p, limit, p.recent_activity.last_previewed_material,
                   "preview_based")
    ELSE <<>>

(* _apply_acquisition_based_rules: Rule 1 of rule_based_v1, with a score *)
v2_apply_acquisition_based_rules(pool, p, limit) ==
    Scored(v1_recent_acquisition(pool, p, limit))

(* sorted(records, key=lambda x: strptime(x["date"]), reverse=True) *)
ByDate(records) ==
    SortDesc(records, [i \in DOMAIN records |-> records[i].date])

(* [s[key] for s in records if key in s] *)
PresentFieldOf(records, key) ==
    FieldOf(Filter(records, [i \in DOMAIN records |-> Has(records[i], key)]), key)

MatchingUnpurchased(pool, p, category, grade) ==
    IF Truthy(category) /\ Truthy(grade)
    THEN Filter(pool, [i \in DOMAIN pool |->
            /\ pool[i].category = Val(category)
            /\ pool[i].class_grade = Val(grade)
            /\ pool[i].material_id \notin IdsOf(p.behavior.purchases)])
    ELSE <<>>

(* The category and grade most common in the three latest searches *)
SearchMatches(pool, p, recent_searches) ==
    MatchingUnpurchased(pool, p,
        MostCommonOrNone(Counter(PresentFieldOf(recent_searches, "material_category"))),
        MostCommonOrNone(Counter(PresentFieldOf(recent_searches, "class_grade"))))

(* _apply_search_based_rules *)
v2_apply_search_based_rules(pool, p, limit) ==
    IF p.behavior.searches # <<>>
    THEN Scored(RecommendAll(
            Take(ByBestseller(SearchMatches(pool, p,
                    Take(ByDate(p.behavior.searches), 3))), limit),
            "search_based"))
    ELSE <<>>

CartInteractions(p) ==
    Filter(p.behavior.interactions,
           [i \in DOMAIN p.behavior.interactions |->
               p.behavior.interactions[i].type = "add_to_cart"])

(* _apply_cart_based_rules *)
v2_apply_cart_based_rules(pool, p, limit) ==
    IF CartInteractions(p) # <<>>
    THEN SimilarTo(pool, p, limit,
                   Some(ByDate(CartInteractions(p))[1].material_id), "cart_based")
    ELSE <<>>

FavoriteMatches(pool, p, similar_materials) ==
    Filter(similar_materials, [i \in DOMAIN similar_materials |->
        similar_materials[i].material_id \notin IdsOf(p.behavior.purchases)])

(* _apply_favorites_based_rules *)
v2_apply_favorites_based_rules(pool, p, limit) ==
    IF p.behavior.favorites # <<>>
    THEN Scored(RecommendAll(
            Take(ByBestseller(FavoriteMatches(pool, p,
                    SimilarToFavorites(pool,
                        MostCommonOrNone(Counter(FieldOf(
                            FavoriteMaterials(pool, p.behavior.favorites), "category"))),
                        MostCommonOrNone(Counter(FieldOf(
                            FavoriteMaterials(pool, p.behavior.favorites), "class_grade"))),
                        IdsOf(p.behavior.favorites)))),
                 limit),
            "favorites_based"))
    ELSE <<>>

(* _apply_preference_based_rules: the code of rule_based_v1, with scores *)
v2_apply_preference_based_rules(pool, p, limit) ==
    Scored(v1_apply_preference_based_rules(pool, p, limit))

(* _get_fallback_recommendations: the code of rule_based_v1, with scores *)
v2_get_fallback_recommendations(pool, p, limit) ==
    Scored(v1_get_fallback_recommendations(pool, p, limit))

(* The six behavior rules, each list extended by the items of the next     *)
(* whose id is not in it yet                                               *)
V2Behavior(pool, p, limit) ==
    ExtendNew(ExtendNew(ExtendNew(ExtendNew(ExtendNew(
        v2_apply_view_based_rules(pool, p, limit),
        v2_apply_preview_based_rules(pool, p, limit)),
        v2_apply_acquisition_based_rules(pool, p, limit)),
        v2_apply_search_based_rules(pool, p, limit)),
        v2_apply_cart_based_rules(pool, p, limit)),
        v2_apply_favorites_based_rules(pool, p, limit))

V2AfterBehavior(pool, p, limit, recs) ==
    IF Len(recs) < limit
    THEN ExtendNew(recs, v2_apply_preference_based_rules(pool, p, limit - Len(recs)))
    ELSE recs

V2AfterPreference(pool, p, limit, recs) ==
    IF Len(recs) < limit
    THEN ExtendNew(recs, v2_get_fallback_recommendations(pool, Some(p),
                                                         limit - Len(recs)))
    ELSE recs

ByScore(recs) == SortDesc(recs, [i \in DOMAIN recs |-> recs[i].score])

(* all_recommendations.sort(key=lambda x: (rule_priorities.get(x["rule"],  *)
(*     99), -x.get("score", 0))): ascending and stable                     *)
ByRulePriority(recs) ==
    SortDesc(ByScore(recs),
             [i \in DOMAIN recs |-> 0 - rule_priorities(ByScore(recs)[i].rule)])

(* rule_based_v2 RecommendationEngine.get_recommendations(user_id, limit) *)
v2_get_recommendations(pool, profiles, user_id, limit) ==
    IF user_id \notin DOMAIN profiles
    THEN v2_get_fallback_recommendations(pool, None, limit)
    ELSE Take(ByRulePriority(
                  V2AfterPreference(pool, profiles[user_id], limit,
                      V2AfterBehavior(pool, profiles[user_id], limit,
                          V2Behavior(pool, profiles[user_id], limit)))),
              limit)

----------------------------------------------------------------------------
(* rule_based_v2: build_profiles over loaded behavior lists and the engine *)
(* over the built profiles                                                 *)

V2Interactions ==
    { <<>>,
      <<[V1Record("u2", "Math", "3", 100, 40) EXCEPT !.type = "view_material"],
        [V1Record("u2", "Math", "3", 250, 41) EXCEPT !.type = "view_preview",
                                                      !.material_id = "B"],
        [V1Record("u1", "Art", "5", 500, 8) EXCEPT !.type = "add_to_cart"]>>,
      <<[V1Record("u1", "Art", "5", 500, 40) EXCEPT !.type = "view_material"],
        [V1Record("u1", "Math", "3", 100, 35) EXCEPT !.type = "view_material"],
        [V1Record("u2", "Art", "3", 700, 1) EXCEPT !.type = "add_to_cart"],
        [V1Record("u2", "Art", "5", 500, 3) EXCEPT !.type = "add_to_cart"],
        V1Record("u3", "Math", "3", 250, 2)>> }

(* a search record with its query only *)
QueryOnly(record) ==
    [key \in DOMAIN record \ {"material_category", "class_grade"} |-> record[key]]

V2Searches ==
    { <<>>,
      <<QueryOnly(V1Record("u1", "", "", 0, 50))>>,
      <<V1Record("u2", "Art", "5", 0, 25), QueryOnly(V1Record("u2", "", "", 0, 12)),
        V1Record("u1", "Math", "3", 0, 5)>>,
      <<V1Record("u1", "Math", "3", 0, 50), NoUserId(V1Record("u3", "", "", 0, 60))>> }

InitV2 ==
    /\ ServiceIdle
    /\ PureIdle
    /\ LazyIdle
    /\ data_loader \in [materials : RulePools,
                         purchases : V1Purchases, favorites : V1Favorites,
                         interactions : V2Interactions, searches : V2Searches]
    /\ user_profiles = NoProfiles
    /\ printed = <<>>
    /\ built = ""
    /\ ContentIdle
    /\ EngineIdle

(* rule_based_v2 UserProfileBuilder(data_loader).build_profiles() *)
V2BuildProfiles ==
    /\ built = ""
    /\ Built(v2_build_profiles(data_loader))
    /\ UNCHANGED <<data_loader, service_vars, pure_vars, lazy_vars, content_vars, engine_vars>>

(* rule_based_v2 RecommendationEngine(data_loader, user_profiles)          *)
(*     .get_recommendations(user_id, limit), once build_profiles returned  *)
V2GetRecommendations(user_id, limit) ==
    /\ built = "returned"
    /\ rule_call' = [call |-> "get_recommendations", user_id |-> user_id,
                     limit |-> limit]
    /\ rule_response' = Answered(v2_get_recommendations(data_loader.materials,
                                                         user_profiles, user_id, limit))
    /\ UNCHANGED <<service_module, recommendation_engine, returned_initialize>>
    /\ UNCHANGED <<service_vars, pure_vars, lazy_vars, v1_vars, content_vars>>

NextV2 ==
    \/ V2BuildProfiles
    \/ \E user_id \in RuleUserIds, limit \in 1..MaxRuleLimit :
          V2GetRecommendations(user_id, limit)

SpecV2 == InitV2 /\ [][NextV2]_vars

----------------------------------------------------------------------------
(* Properties of the rule_based_v2 engine *)

Answer == Val(rule_response).value

GotRecommendations ==
    ~IsNone(rule_response) /\ rule_call.call = "get_recommendations"

(* The rules, from the highest priority to the lowest *)
StatedRuleOrder ==
    <<"view_based", "preview_based", "recent_acquisition", "search_based",
      "cart_based", "favorites_based", "category_grade_preference",
      "price_preference", "popular_by_grade", "overall_popular">>

StatedPriority(rule) ==
    CHOOSE k \in DOMAIN StatedRuleOrder : StatedRuleOrder[k] = rule

(* The lists the rule methods returned during the call, for a known user:  *)
(* the six behavior rules, the preference rules when fewer than limit      *)
(* items were there, the fallback when fewer than limit still were         *)
ListsOfRules(pool, p, limit) ==
    {v2_apply_view_based_rules(pool, p, limit),
     v2_apply_preview_based_rules(pool, p, limit),
     v2_apply_acquisition_based_rules(pool, p, limit),
     v2_apply_search_based_rules(pool, p, limit),
     v2_apply_cart_based_rules(pool, p, limit),
     v2_apply_favorites_based_rules(pool, p, limit)}
    \cup (IF Len(V2Behavior(pool, p, limit)) < limit
          THEN {v2_apply_preference_based_rules(pool, p,
                    limit - Len(V2Behavior(pool, p, limit)))}
          ELSE {})
    \cup (IF Len(V2AfterBehavior(pool, p, limit, V2Behavior(pool, p, limit))) < limit
          THEN {v2_get_fallback_recommendations(pool, Some(p),
                    limit - Len(V2AfterBehavior(pool, p, limit,
                                                V2Behavior(pool, p, limit))))}
          ELSE {})

ProducedLists ==
    ListsOfRules(data_loader.materials, user_profiles[rule_call.user_id],
                 rule_call.limit)

(* The rules that produced a material during the call *)
RulesProducing(material_id) ==
    UNION {{list[k].rule : k \in {n \in DOMAIN list :
                                     list[n].material_id = material_id}} :
           list \in ProducedLists}

HighestPriority(rules) ==
    CHOOSE k \in {StatedPriority(rule) : rule \in rules} :
        \A rule \in rules : k <= StatedPriority(rule)

KnownUser == rule_call.user_id \in DOMAIN user_profiles

(* C28: the list rule_based_v2 get_recommendations returns is ordered by   *)
(* rule priority (view_based first, overall_popular last) and by           *)
(* descending score within a priority, and a material that several rules   *)
(* produce carries the label of the highest-priority rule that produced it.*)
C28_RulePriorityOrder ==
    GotRecommendations =>
        /\ \A i, j \in DOMAIN Answer :
              i < j =>
                \/ StatedPriority(Answer[i].rule) < StatedPriority(Answer[j].rule)
                \/ /\ Answer[i].rule = Answer[j].rule
                   /\ Answer[i].score >= Answer[j].score
        /\ KnownUser =>
              \A i \in DOMAIN Answer :
                  StatedPriority(Answer[i].rule)
                     = HighestPriority(RulesProducing(Answer[i].material_id))

(* a list with two rules in it, one of its materials produced by several   *)
(* rules                                                                   *)
C28_Witness ==
    /\ GotRecommendations
    /\ KnownUser
    /\ Cardinality({Answer[i].rule : i \in DOMAIN Answer}) >= 2
    /\ \E i \in DOMAIN Answer :
          Cardinality(RulesProducing(Answer[i].material_id)) >= 2

----------------------------------------------------------------------------
(* PersonalizationService: initialize(), get_recommendations_for_user()    *)
(* and get_user_profile() called in any order, on the service of one of    *)
(* the three modules.  The rule-based services are called one call at a    *)
(* time; the content-based one by the threads.                             *)

RuleModules == {"rule_based_v1", "rule_based_v2"}

ServiceModules == RuleModules \cup {"content_based_filtering"}

(* What DataLoader(self.data_path).load_data() may find in the files *)
ServiceLoaders ==
    [materials : {RulePool}, purchases : V1Purchases, favorites : V1Favorites,
     interactions : {<<>>}, searches : {<<>>}]

not_initialized == "Personalization Service not initialized. Call initialize() first."

(* UserProfileBuilder(self.data_loader).build_profiles() of the module *)
ServiceBuild(loader) ==
    IF service_module = "rule_based_v2"
    THEN v2_build_profiles(loader) ELSE build_profiles(loader)

(* self.recommendation_engine.get_recommendations(user_id, limit) *)
EngineRecommendations(engine, user_id, limit) ==
    IF service_module = "rule_based_v2"
    THEN v2_get_recommendations(engine.data_loader.materials,
                                engine.user_profiles, user_id, limit)
    ELSE v1_get_recommendations(engine.data_loader.materials,
                                engine.user_profiles, user_id, limit)

(* no engine, whatever the service holds *)
never_initialized(engine, user_id, limit) == Answered(<<>>)

(* rule-based get_recommendations_for_user: "if not                        *)
(* self.recommendation_engine: raise Exception(...)"                       *)
get_recommendations_for_user(engine, user_id, limit) ==
    IF IsNone(engine) THEN Raising(not_initialized)
    ELSE Answered(EngineRecommendations(Val(engine), user_id, limit))

(* rule-based get_user_profile *)
get_user_profile(profiles, user_id) ==
    Answered(IF user_id \in DOMAIN profiles THEN Some(profiles[user_id]) ELSE None)

InitProtocol ==
    /\ ServiceIdle
    /\ PureIdle
    /\ LazyIdle
    /\ V1Idle
    /\ ContentIdle
    /\ service_module \in ServiceModules
    /\ recommendation_engine = None
    /\ rule_call = NoRuleCall
    /\ rule_response = None
    /\ returned_initialize = FALSE

(* rule-based initialize() over the loaded files, b what build_profiles    *)
(* did.  self.data_loader is assigned before build_profiles runs; when it  *)
(* raises, self.user_profiles and self.recommendation_engine keep their    *)
(* values.  The engine holds the loader and the profiles it was made with. *)
Initialized(loader, b) ==
    /\ data_loader' = loader
    /\ printed' = b.printed
    /\ built' = IF b.raised = "" THEN "returned" ELSE b.raised
    /\ user_profiles' = IF b.raised = "" THEN b.user_profiles ELSE user_profiles
    /\ recommendation_engine' =
          IF b.raised = ""
          THEN Some([data_loader |-> loader, user_profiles |-> b.user_profiles])
          ELSE recommendation_engine
    /\ returned_initialize' = (returned_initialize \/ b.raised = "")
    /\ rule_call' = [call |-> "initialize", user_id |-> "", limit |-> 0]
    /\ rule_response' = IF b.raised = "" THEN Answered(<<>>) ELSE Raising(b.raised)

RuleInitialize ==
    /\ service_module \in RuleModules
    /\ \E loader \in ServiceLoaders : Initialized(loader, ServiceBuild(loader))
    /\ UNCHANGED <<service_module, service_vars, pure_vars, lazy_vars, content_vars>>

RuleGetRecommendationsForUser(user_id, limit) ==
    /\ service_module \in RuleModules
    /\ rule_call' = [call |-> "get_recommendations_for_user", user_id |-> user_id,
                     limit |-> limit]
    /\ rule_response' = get_recommendations_for_user(recommendation_engine,
                                                      user_id, limit)
    /\ UNCHANGED <<service_module, recommendation_engine, returned_initialize>>
    /\ UNCHANGED <<service_vars, pure_vars, lazy_vars, v1_vars, content_vars>>

RuleGetUserProfile(user_id) ==
    /\ service_module \in RuleModules
    /\ rule_call' = [call |-> "get_user_profile", user_id |-> user_id, limit |-> 0]
    /\ rule_response' = get_user_profile(user_profiles, user_id)
    /\ UNCHANGED <<service_module, recommendation_engine, returned_initialize>>
    /\ UNCHANGED <<service_vars, pure_vars, lazy_vars, v1_vars, content_vars>>

(* The users in the files the content-based DataLoader reads *)
LoadedUserIds == {"u1", "u2"}

(* What a thread's call of the content-based service gave *)
CallResult(user_id, response) == Some([user_id |-> user_id] @@ Val(response))

CallGetRecommendationsForUser(t) ==
    /\ Enter(t, "get_recommendations_for_user")
    /\ UNCHANGED <<repository, personalization, service_vars, pure_vars, v1_vars, content_vars, engine_vars>>

(* content-based get_recommendations_for_user: "if not self.recommender:   *)
(* raise Exception(...)", else what the recommender returns                *)
ReturnRecommendationsForUser(t, user_id) ==
    /\ thread[t].pc = "get_recommendations_for_user"
    /\ Leave(t, CallResult(user_id,
                    IF IsNone(personalization.recommender)
                    THEN Raising(not_initialized)
                    ELSE Answered(personalization.recommender)))
    /\ UNCHANGED <<repository, personalization, service_vars, pure_vars, v1_vars, content_vars, engine_vars>>

CallGetUserProfile(t) ==
    /\ Enter(t, "get_user_profile")
    /\ UNCHANGED <<repository, personalization, service_vars, pure_vars, v1_vars, content_vars, engine_vars>>

(* content-based get_user_profile reads self.data_loader.user_profiles:    *)
(* AttributeError while self.data_loader is None                           *)
ReturnUserProfile(t, user_id) ==
    /\ thread[t].pc = "get_user_profile"
    /\ Leave(t, CallResult(user_id,
                    IF IsNone(personalization.data_loader)
                    THEN Raising("AttributeError")
                    ELSE Answered(IF user_id \in LoadedUserIds
                                  THEN Some(user_id) ELSE None)))
    /\ UNCHANGED <<repository, personalization, service_vars, pure_vars, v1_vars, content_vars, engine_vars>>

ContentService(t) ==
    \/ CallInitialize(t)
    \/ LoadData(t)
    \/ BuildFeatureVectors(t)
    \/ AnalyzeUserProfiles(t)
    \/ InitRecommender(t)
    \/ CallGetRecommendationsForUser(t)
    \/ \E user_id \in RuleUserIds : ReturnRecommendationsForUser(t, user_id)
    \/ CallGetUserProfile(t)
    \/ \E user_id \in RuleUserIds : ReturnUserProfile(t, user_id)

NextProtocol ==
    \/ RuleInitialize
    \/ \E user_id \in RuleUserIds, limit \in 1..MaxRuleLimit :
          RuleGetRecommendationsForUser(user_id, limit)
    \/ \E user_id \in RuleUserIds : RuleGetUserProfile(user_id)
    \/ \E t \in Threads : ContentService(t)

SpecProtocol == InitProtocol /\ [][NextProtocol]_vars

----------------------------------------------------------------------------
(* Properties of the initialise-before-use protocol *)

RuleCalled(call) == rule_call'.call = call /\ ~IsNone(rule_response')

(* the rule-based services, over a step that made a call *)
RuleProtocol ==
    /\ RuleCalled("get_recommendations_for_user") =>
          /\ Val(rule_response').raised = not_initialized <=> ~returned_initialize
          /\ Val(rule_response').raised # "" =>
                UNCHANGED <<data_loader, user_profiles, recommendation_engine>>
    /\ (returned_initialize /\ RuleCalled("get_recommendations_for_user")) =>
          Val(rule_response').raised = ""
    /\ (returned_initialize /\ RuleCalled("get_user_profile")) =>
          /\ Val(rule_response').raised = ""
          /\ rule_call'.user_id \notin DOMAIN user_profiles =>
                Val(rule_response').value = None

Returns(t, call) == thread[t].pc = call /\ thread'[t].pc = "idle"

(* the content-based service, over the step in which a call returns *)
ContentProtocol(t) ==
    /\ Returns(t, "get_recommendations_for_user") =>
          /\ Val(thread'[t].result).raised = not_initialized <=> ~returned_initialize
          /\ Val(thread'[t].result).raised # "" => UNCHANGED personalization
    /\ (returned_initialize /\ Returns(t, "get_recommendations_for_user")) =>
          Val(thread'[t].result).raised = ""
    /\ (returned_initialize /\ Returns(t, "get_user_profile")) =>
          /\ Val(thread'[t].result).raised = ""
          /\ Val(thread'[t].result).user_id \notin LoadedUserIds =>
                Val(thread'[t].result).value = None

(* C30: in any sequence of calls of a PersonalizationService,              *)
(* get_recommendations_for_user raises the 'not initialized' error exactly *)
(* when no initialize() call has returned before it, and then changes      *)
(* nothing in the service; once initialize() has returned, neither it nor  *)
(* get_user_profile raises, and get_user_profile of an unknown user        *)
(* returns None.                                                           *)
C30_InitializeBeforeUse ==
    [][RuleProtocol /\ \A t \in Threads : ContentProtocol(t)]_vars

(* an initialize() that raised, then a get_recommendations_for_user that   *)
(* raises 'not initialized'                                                *)
C30_Witness ==
    /\ built \notin {"", "returned"}
    /\ ~returned_initialize
    /\ rule_call.call = "get_recommendations_for_user"
    /\ Val(rule_response).raised = not_initialized

====
